---- MODULE Spec2Model ----
(***************************************************************************)
(* A model of the Brotli encoder core of src/enc/encode.cc.                *)
(*                                                                         *)
(* The module holds several specifications over one set of variables:      *)
(*   Spec      BrotliCompressBuffer driving a BrotliCompressor: header,    *)
(*             meta-block loop, byte flushing, FinishStream.  Commands all *)
(*             repeat the last distance, the meta-block bits vary.         *)
(*   FairSpec  Spec with the fairness of a sequential program.             *)
(*   SpecDist  the same program with the commands' copy distances varied   *)
(*             and the meta-block bits fixed: the distance ring.           *)
(* Every specification uses the same actions; they differ in the sets the  *)
(* inputs are drawn from.                                                  *)
(***************************************************************************)
EXTENDS Integers, Sequences, FiniteSets, TLC

VARIABLES
  pc,                    \* position in BrotliCompressBuffer / WriteMetaBlock
  input_size,            \* argument of BrotliCompressBuffer
  input_buffer,          \* the moving input pointer, as an offset into the input
  block_size,            \* local of the driver loop
  output_size,           \* out-parameter of the last WriteMetaBlock / FinishStream
  encoded_size,          \* *encoded_size
  encoded_buffer,        \* the bytes handed to the caller so far
  ret,                   \* return value of BrotliCompressBuffer (0: not returned)
  window_bits_,          \* BrotliCompressor::window_bits_
  storage_ix_,           \* BrotliCompressor::storage_ix_ (bit cursor)
  storage_,              \* BrotliCompressor::storage_ (bytes)
  dist_ringbuffer_,      \* BrotliCompressor::dist_ringbuffer_[4]
  dist_ringbuffer_idx_,  \* BrotliCompressor::dist_ringbuffer_idx_
  i,                     \* loop index of ComputeDistanceShortCodes
  cmd,                   \* the command the loop processed last
  calls,                 \* history: the compressor operations called, in order
  written,               \* history: every bit handed to WriteBits, in order
  dec_ring,              \* the decoder's distance ring
  dec_idx,               \* the decoder's ring index
  decoded,               \* the distance the decoder resolved for cmd
  recent,                \* history: the four most recent distances with code > 1
  cm_pc,                 \* position in the context-map transforms
  context_map,           \* the vector v handed to MoveToFrontTransform
  transformed_symbols,   \* the result of MoveToFrontTransform
  max_run_length_prefix, \* *max_run_length_prefix of RunLengthCodeZeros
  rle_symbols,           \* *v_out of RunLengthCodeZeros
  extra_bits,            \* *extra_bits of RunLengthCodeZeros
  smb_pc,                \* position around StoreMetaBlock
  mb,                    \* the MetaBlock handed to StoreMetaBlock
  input_pos_,            \* BrotliCompressor::input_pos_, the *pos of StoreMetaBlock
  emitted,               \* history: what StoreMetaBlock emitted, in order
  it_trace,              \* history: the iterator after each MoveAndEncode
  num_clusters,          \* num_clusters of EncodeContextMap
  bt_pc,                 \* position around ComputeBlockTypeShortCodes
  bt_split,              \* the BlockSplit of ComputeBlockTypeShortCodes
  bt_it,                 \* a BlockSplitIterator over bt_split
  passed,                \* history: the type codes MoveAndEncode handed on
  wr_pc,                 \* position around a serialising function
  wr_call,               \* the arguments of the serialising function
  wr_bits                \* history: the WriteBits calls the function made

vars == <<pc, input_size, input_buffer, block_size, output_size, encoded_size,
          encoded_buffer, ret, window_bits_, storage_ix_, storage_,
          dist_ringbuffer_, dist_ringbuffer_idx_, i, cmd, calls, written,
          dec_ring, dec_idx, decoded, recent, cm_pc, context_map,
          transformed_symbols, max_run_length_prefix, rle_symbols, extra_bits,
          smb_pc, mb, input_pos_, emitted, it_trace, num_clusters,
          bt_pc, bt_split, bt_it, passed, wr_pc, wr_call, wr_bits>>

\* The variables of the driver and of the compressor it drives.
driver_vars == <<pc, input_size, input_buffer, block_size, output_size,
                 encoded_size, encoded_buffer, ret, window_bits_, storage_ix_,
                 storage_, dist_ringbuffer_, dist_ringbuffer_idx_, i, cmd,
                 calls, written, dec_ring, dec_idx, decoded, recent>>

\* The variables of StoreMetaBlock.
smb_vars == <<smb_pc, mb, input_pos_, emitted, it_trace>>

\* The variables of the context-map transforms.
cm_vars == <<cm_pc, context_map, transformed_symbols, max_run_length_prefix,
             rle_symbols, extra_bits, num_clusters>>

\* The variables of the block-type codes.
bt_vars == <<bt_pc, bt_split, bt_it, passed>>

\* The variables of the serialising functions checked on their own.
wr_vars == <<wr_pc, wr_call, wr_bits>>

(***************************************************************************)
(* Program constants.                                                      *)
(***************************************************************************)
kWindowBits == 22
kMetaBlockSizeBits == 21

(***************************************************************************)
(* Bounds of the model.                                                    *)
(***************************************************************************)
MaxBlocks == 2       \* meta-blocks an input spans at most
MaxMBBits == 10      \* bits one (abstract) StoreMetaBlock writes at most
MaxCmds == 3         \* commands of one meta-block at most
MaxLen == 5          \* entries of a context map at most
MaxVal == 2          \* largest entry of a context map
MaxMbCmds == 2       \* commands of a MetaBlock handed to StoreMetaBlock at most

Pow2(n) == 2 ^ n

max_block_size == Pow2(kMetaBlockSizeBits)

\* The bytes of storage_ the model keeps: the longest write of the model starts
\* in byte (7 + MaxMBBits) \div 8 at most and stores 8 bytes.
StorageLen == (7 + MaxMBBits) \div 8 + 9

(***************************************************************************)
(* Bit helpers.                                                            *)
(***************************************************************************)
\* The low n bits of v, least significant first.
BitsOf(n, v) == [k \in 1..n |-> (v \div Pow2(k - 1)) % 2]

RECURSIVE BitOr(_, _)
BitOr(a, b) ==
  IF a = 0 THEN b
  ELSE IF b = 0 THEN a
  ELSE (IF a % 2 = 1 \/ b % 2 = 1 THEN 1 ELSE 0) + 2 * BitOr(a \div 2, b \div 2)

RECURSIVE ByteAt(_, _)
ByteAt(v, j) == IF j = 0 THEN v % 256 ELSE ByteAt(v \div 256, j - 1)

\* WriteBits (write_bits.h, little-endian branch): OR the value into the byte
\* under the cursor, store 8 bytes from there, advance the cursor.
WriteBits(n_bits, bits, pos, array) ==
  LET p == pos \div 8
      v == BitOr(array[p], bits * Pow2(pos % 8))
  IN  [pos |-> pos + n_bits,
       array |-> [k \in DOMAIN array |->
                    IF k >= p /\ k < p + 8 THEN ByteAt(v, k - p) ELSE array[k]]]

\* memcpy(dst, storage, n): the first n bytes of the array, as a sequence.
Memcpy(array, n) == [k \in 1..n |-> array[k - 1]]

(***************************************************************************)
(* ComputeDistanceShortCodes, one loop iteration.                          *)
(***************************************************************************)
kIndexOffset == <<3, 2, 1, 0, 3, 3, 3, 3, 3, 3, 2, 2, 2, 2, 2, 2>>
kValueOffset == <<0, 0, 0, 0, -1, 1, -2, 2, -3, 3, -1, 1, -2, 2, -3, 3>>

\* The `continue` of the k loop: short distances only take the popular choices.
SkipCandidate(cur_dist, k) ==
  cur_dist < 11 /\ ((k >= 2 /\ k < 4) \/ k >= 6)

\* Mutant: the value offset is subtracted.
MutCandidate(ring, idx, k) ==
  ring[(idx + kIndexOffset[k + 1]) % 4] - kValueOffset[k + 1]

\* comp for candidate k (k is 0-based as in the source).
Candidate(ring, idx, k) ==
  ring[(idx + kIndexOffset[k + 1]) % 4] + kValueOffset[k + 1]

\* dist_code of a command with copy distance cur_dist: the first candidate that
\* is not skipped and equals cur_dist gives k + 1, otherwise cur_dist + 16.
DistCode(cur_dist, ring, idx) ==
  LET hits == {k \in 0..15 : ~SkipCandidate(cur_dist, k)
                             /\ Candidate(ring, idx, k) = cur_dist}
  IN  IF hits = {} THEN cur_dist + 16
      ELSE (CHOOSE k \in hits : \A m \in hits : k <= m) + 1

\* Mutant: the ring absorbs every short code, code 1 included.
MutAbsorbs(dist_code) == dist_code > 0

\* if (dist_code > 1): the ring absorbs the distance.
Absorbs(dist_code) == dist_code > 1

RingAfter(cur_dist, dist_code, ring, idx) ==
  IF Absorbs(dist_code) THEN [ring EXCEPT ![idx % 4] = cur_dist] ELSE ring

IdxAfter(dist_code, idx) ==
  IF Absorbs(dist_code) THEN idx + 1 ELSE idx

(***************************************************************************)
(* The decoder's side of the distance codes, as the format defines it: a   *)
(* 4-entry ring of its own, read by the same 16 expressions.               *)
(***************************************************************************)
DecoderResolve(code, ring, idx) ==
  IF code <= 16
  THEN ring[(idx + kIndexOffset[code]) % 4] + kValueOffset[code]
  ELSE code - 16

(***************************************************************************)
(* BrotliCompressor.                                                       *)
(***************************************************************************)
InitialRing == [k \in 0..3 |-> <<4, 11, 15, 16>>[k + 1]]

NoCmd == [copy_distance_ |-> 0, distance_code_ |-> 0]

\* Mutant: the window size is written as window_bits - 16.
MutStreamHeaderWrites(window_bits) ==
  <<[n_bits |-> 3, bits |-> 0]>> \o
  (IF window_bits = 16
   THEN <<[n_bits |-> 1, bits |-> 0]>>
   ELSE <<[n_bits |-> 1, bits |-> 1], [n_bits |-> 3, bits |-> window_bits - 16]>>)

\* The WriteBits calls of WriteStreamHeader, in order.
StreamHeaderWrites(window_bits) ==
  <<[n_bits |-> 3, bits |-> 0]>> \o
  (IF window_bits = 16
   THEN <<[n_bits |-> 1, bits |-> 0]>>
   ELSE <<[n_bits |-> 1, bits |-> 1], [n_bits |-> 3, bits |-> window_bits - 17]>>)

\* A sequence of WriteBits calls applied to a cursor and its bytes.
RECURSIVE WriteAll(_, _, _)
WriteAll(ws, pos, array) ==
  IF ws = <<>> THEN [pos |-> pos, array |-> array]
  ELSE LET w == WriteBits(Head(ws).n_bits, Head(ws).bits, pos, array)
       IN  WriteAll(Tail(ws), w.pos, w.array)

\* The bits a sequence of WriteBits calls appends, in order.
RECURSIVE FlatBits(_)
FlatBits(ws) ==
  IF ws = <<>> THEN <<>>
  ELSE BitsOf(Head(ws).n_bits, Head(ws).bits) \o FlatBits(Tail(ws))

\* Mutant: the straddling byte is not moved to the cursor.
MutFlushMetaBlock(storage_ix, storage) ==
  LET out == storage_ix \div 8
      ix == storage_ix - out * 8
  IN  [output_size |-> out,
       bytes |-> Memcpy(storage, out),
       storage_ix |-> ix,
       storage |-> storage]

\* The tail of WriteMetaBlock: hand out the completed bytes, move the cursor
\* back, keep the straddling byte at the cursor.
FlushMetaBlock(storage_ix, storage) ==
  LET out == storage_ix \div 8
      ix == storage_ix - out * 8
  IN  [output_size |-> out,
       bytes |-> Memcpy(storage, out),
       storage_ix |-> ix,
       storage |-> [storage EXCEPT ![ix \div 8] = storage[out]]]

\* FinishStream: the ISLAST bit, then every byte the cursor has entered.
FinishStreamOut(storage_ix, storage) ==
  LET w == WriteBits(1, 1, storage_ix, storage)
      n == (w.pos + 7) \div 8
  IN  [output_size |-> n, bytes |-> Memcpy(w.array, n),
       storage_ix |-> w.pos, storage |-> w.array]

\* Mutant: the block size is never clamped to what is left.
MutBlockSize(remaining) == max_block_size

\* The driver's block size: the whole rest when max_block_size covers it.
BlockSize(remaining) ==
  IF max_block_size >= remaining THEN remaining ELSE max_block_size

\* Mutants: the second byte is not stored; the bytes are 0x06 0x00.
MutEmptyEncodingShort == <<1>>
MutEmptyEncodingSix == <<6, 0>>

\* The two bytes BrotliCompressBuffer stores for input_size == 0.
EmptyEncoding == <<1, 0>>

(***************************************************************************)
(* Input sets.                                                             *)
(***************************************************************************)
\* Input sizes: 0, and around every multiple of the block size.
InputSizes ==
  {0} \cup {(k - 1) * max_block_size + r :
              k \in 1..MaxBlocks, r \in {1, max_block_size - 1, max_block_size}}

\* What the uninitialised bytes of new uint8_t[] may hold.
Garbage == {0, 255}

\* What one StoreMetaBlock writes, as one WriteBits call: every length up to
\* MaxMBBits, all zeros or all ones.
MetaBlockWrites ==
  {[n_bits |-> n, bits |-> b] : n \in 1..MaxMBBits, b \in {0}} \cup
  {[n_bits |-> n, bits |-> Pow2(n) - 1] : n \in 1..MaxMBBits}

\* Copy distances of Spec: every copy repeats the distance 16.
RepeatDistances == {16}

\* Copy distances of FairSpec.
CallDistances == {16, 17}

\* SpecDist: one input of MaxBlocks full blocks, one write, several distances.
DistInputSizes == {0, MaxBlocks * max_block_size}
DistGarbage == {0}
DistWrites == {[n_bits |-> 5, bits |-> 10]}
Distances == {4, 5, 15, 16, 17, 30}

(***************************************************************************)
(* Actions.                                                                *)
(***************************************************************************)
compressor == <<window_bits_, storage_ix_, storage_, dist_ringbuffer_,
                dist_ringbuffer_idx_>>
decoder == <<dec_ring, dec_idx, decoded, recent>>
caller == <<input_size, input_buffer, block_size, output_size, encoded_size,
            encoded_buffer, ret>>

InitOf(sizes, garbage) ==
  /\ pc = "entry"
  /\ input_size \in sizes
  /\ input_buffer = 0
  /\ block_size = 0
  /\ output_size = 0
  /\ encoded_size = 0
  /\ encoded_buffer = <<>>
  /\ ret = 0
  /\ window_bits_ = 0
  /\ storage_ix_ = 0
  /\ \E g \in garbage : storage_ = [k \in 0..(StorageLen - 1) |-> g]
  /\ dist_ringbuffer_ = [k \in 0..3 |-> 0]
  /\ dist_ringbuffer_idx_ = 0
  /\ i = 0
  /\ cmd = NoCmd
  /\ calls = <<>>
  /\ written = <<>>
  /\ dec_ring = InitialRing
  /\ dec_idx = 0
  /\ decoded = 0
  /\ recent = <<4, 11, 15, 16>>

\* if (input_size == 0) { ... return 1; }
EmptyInput ==
  /\ pc = "entry"
  /\ input_size = 0
  /\ encoded_buffer' = EmptyEncoding
  /\ encoded_size' = 2
  /\ ret' = 1
  /\ pc' = "done"
  /\ UNCHANGED <<input_size, input_buffer, block_size, output_size, compressor,
                 i, cmd, calls, written, decoder>>
  /\ UNCHANGED <<cm_vars, smb_vars, bt_vars, wr_vars>>

\* BrotliCompressor compressor;
Construct ==
  /\ pc = "entry"
  /\ input_size # 0
  /\ window_bits_' = kWindowBits
  /\ dist_ringbuffer_idx_' = 0
  /\ storage_ix_' = 0
  /\ dist_ringbuffer_' = InitialRing
  /\ storage_' = [storage_ EXCEPT ![0] = 0]
  /\ pc' = "header"
  /\ UNCHANGED <<caller, i, cmd, calls, written, decoder>>
  /\ UNCHANGED <<cm_vars, smb_vars, bt_vars, wr_vars>>

\* compressor.WriteStreamHeader(); and the driver's *encoded_size = 0.
DoWriteStreamHeader ==
  /\ pc = "header"
  /\ LET w == WriteAll(StreamHeaderWrites(window_bits_), storage_ix_, storage_)
     IN  /\ storage_ix_' = w.pos
         /\ storage_' = w.array
  /\ written' = written \o FlatBits(StreamHeaderWrites(window_bits_))
  /\ calls' = Append(calls, [op |-> "WriteStreamHeader", off |-> 0, size |-> 0])
  /\ encoded_size' = 0
  /\ pc' = "loop"
  /\ UNCHANGED <<input_size, input_buffer, block_size, output_size,
                 encoded_buffer, ret, window_bits_, dist_ringbuffer_,
                 dist_ringbuffer_idx_, i, cmd, decoder>>
  /\ UNCHANGED <<cm_vars, smb_vars, bt_vars, wr_vars>>

\* while (input_buffer < input_end): the block size, and WriteMetaBlock up to
\* the call of ComputeDistanceShortCodes.
WriteMetaBlockBegin ==
  /\ pc = "loop"
  /\ input_buffer < input_size
  /\ block_size' = BlockSize(input_size - input_buffer)
  /\ calls' = Append(calls, [op |-> "WriteMetaBlock", off |-> input_buffer,
                             size |-> block_size'])
  /\ i' = 0
  /\ cmd' = NoCmd
  /\ pc' = "shortcodes"
  /\ UNCHANGED <<input_size, input_buffer, output_size, encoded_size,
                 encoded_buffer, ret, compressor, written, decoder>>
  /\ UNCHANGED <<cm_vars, smb_vars, bt_vars, wr_vars>>

\* One iteration of the loop of ComputeDistanceShortCodes on a command with
\* copy distance cur_dist > 0; the decoder resolves the code it is sent.
ShortCodeStep(cur_dist) ==
  /\ pc = "shortcodes"
  /\ i < MaxCmds
  /\ cur_dist > 0
  /\ LET dist_code == DistCode(cur_dist, dist_ringbuffer_, dist_ringbuffer_idx_)
         dist == DecoderResolve(dist_code, dec_ring, dec_idx)
     IN  /\ dist_ringbuffer_' = RingAfter(cur_dist, dist_code, dist_ringbuffer_,
                                          dist_ringbuffer_idx_)
         /\ dist_ringbuffer_idx_' = IdxAfter(dist_code, dist_ringbuffer_idx_)
         /\ cmd' = [copy_distance_ |-> cur_dist, distance_code_ |-> dist_code]
         /\ decoded' = dist
         /\ dec_ring' = IF dist_code > 1
                        THEN [dec_ring EXCEPT ![dec_idx % 4] = dist]
                        ELSE dec_ring
         /\ dec_idx' = IF dist_code > 1 THEN dec_idx + 1 ELSE dec_idx
         /\ recent' = IF dist_code > 1
                      THEN Append(Tail(recent), cur_dist)
                      ELSE recent
  /\ i' = i + 1
  /\ UNCHANGED <<pc, caller, window_bits_, storage_ix_, storage_, calls, written>>
  /\ UNCHANGED <<cm_vars, smb_vars, bt_vars, wr_vars>>

\* The loop ends: i == cmds->size(), or the command has copy_distance_ == 0.
ShortCodesEnd ==
  /\ pc = "shortcodes"
  /\ pc' = "store"
  /\ UNCHANGED <<caller, compressor, i, cmd, calls, written, decoder>>
  /\ UNCHANGED <<cm_vars, smb_vars, bt_vars, wr_vars>>

\* StoreMetaBlock (its bits abstracted to one write w), the flush at the end of
\* WriteMetaBlock, and the driver's bookkeeping after the call.
StoreAndFlush(w) ==
  /\ pc = "store"
  /\ LET s == WriteAll(<<w>>, storage_ix_, storage_)
         f == FlushMetaBlock(s.pos, s.array)
     IN  /\ storage_ix_' = f.storage_ix
         /\ storage_' = f.storage
         /\ output_size' = f.output_size
         /\ encoded_buffer' = encoded_buffer \o f.bytes
         /\ encoded_size' = encoded_size + f.output_size
  /\ written' = written \o FlatBits(<<w>>)
  /\ input_buffer' = input_buffer + block_size
  /\ i' = 0
  /\ cmd' = NoCmd
  /\ pc' = "loop"
  /\ UNCHANGED <<input_size, block_size, ret, window_bits_, dist_ringbuffer_,
                 dist_ringbuffer_idx_, calls, decoder>>
  /\ UNCHANGED <<cm_vars, smb_vars, bt_vars, wr_vars>>

\* compressor.FinishStream(...); *encoded_size += output_size; return 1;
DoFinishStream ==
  /\ pc = "loop"
  /\ ~(input_buffer < input_size)
  /\ LET f == FinishStreamOut(storage_ix_, storage_)
     IN  /\ storage_ix_' = f.storage_ix
         /\ storage_' = f.storage
         /\ output_size' = f.output_size
         /\ encoded_buffer' = encoded_buffer \o f.bytes
         /\ encoded_size' = encoded_size + f.output_size
  /\ written' = Append(written, 1)
  /\ calls' = Append(calls, [op |-> "FinishStream", off |-> 0, size |-> 0])
  /\ ret' = 1
  /\ pc' = "done"
  /\ UNCHANGED <<input_size, input_buffer, block_size, window_bits_,
                 dist_ringbuffer_, dist_ringbuffer_idx_, i, cmd, decoder>>
  /\ UNCHANGED <<cm_vars, smb_vars, bt_vars, wr_vars>>

(***************************************************************************)
(* The context-map transforms: MoveToFrontTransform, RunLengthCodeZeros.   *)
(* Vectors are sequences; the values in them are as in the source.         *)
(***************************************************************************)
\* The largest max_run_length_prefix BestMaxZeroRunLengthPrefix tries.
kMaxRunLengthPrefix == 16

\* Log2Floor (fast_log.h): floor(log2(n)) for n > 0.
RECURSIVE Log2Floor(_)
Log2Floor(n) == IF n <= 1 THEN 0 ELSE 1 + Log2Floor(n \div 2)

\* IndexOf: the 0-based index of the first entry equal to value, or -1.
IndexOf(v, value) ==
  LET at == {k \in 1..Len(v) : v[k] = value}
  IN  IF at = {} THEN -1
      ELSE (CHOOSE k \in at : \A m \in at : k <= m) - 1

\* MoveToFront: the entry at 0-based index moves to the front.
MoveToFront(v, index) ==
  [k \in 1..Len(v) |->
     IF k = 1 THEN v[index + 1]
     ELSE IF k <= index + 1 THEN v[k - 1]
     ELSE v[k]]

MaxElement(v) == CHOOSE m \in {v[k] : k \in 1..Len(v)} :
                   \A k \in 1..Len(v) : v[k] <= m

\* The loop of MoveToFrontTransform from entry k on, with the list mtf.
RECURSIVE MtfLoop(_, _, _)
MtfLoop(v, k, mtf) ==
  IF k > Len(v) THEN <<>>
  ELSE LET index == IndexOf(mtf, v[k])
       IN  <<index>> \o MtfLoop(v, k + 1, MoveToFront(mtf, index))

MoveToFrontTransform(v) ==
  IF v = <<>> THEN v
  ELSE MtfLoop(v, 1, [k \in 1..(MaxElement(v) + 1) |-> k - 1])

\* The number of zeros of v_in from entry k on, up to the first non-zero.
RECURSIVE ZeroRun(_, _)
ZeroRun(v_in, k) ==
  IF k > Len(v_in) \/ v_in[k] # 0 THEN 0 ELSE 1 + ZeroRun(v_in, k + 1)

\* max_reps: the longest run of zeros of v_in.
MaxReps(v_in) ==
  LET runs == {ZeroRun(v_in, k) : k \in 1..Len(v_in)} \cup {0}
  IN  CHOOSE m \in runs : \A r \in runs : r <= m

\* Mutant: a full chunk is taken to stand for 2 << max zeros.
RECURSIVE MutRunTokens(_, _)
MutRunTokens(reps, max_prefix) ==
  IF reps <= 0 THEN <<>>
  ELSE IF reps < 2 * Pow2(max_prefix)
  THEN <<[symbol |-> Log2Floor(reps),
          extra |-> reps - Pow2(Log2Floor(reps))]>>
  ELSE <<[symbol |-> max_prefix, extra |-> Pow2(max_prefix) - 1]>>
       \o MutRunTokens(reps - 2 * Pow2(max_prefix), max_prefix)

\* while (reps): the tokens of one run of reps zeros.
RECURSIVE RunTokens(_, _)
RunTokens(reps, max_prefix) ==
  IF reps = 0 THEN <<>>
  ELSE IF reps < 2 * Pow2(max_prefix)
  THEN <<[symbol |-> Log2Floor(reps),
          extra |-> reps - Pow2(Log2Floor(reps))]>>
  ELSE <<[symbol |-> max_prefix, extra |-> Pow2(max_prefix) - 1]>>
       \o RunTokens(reps - (2 * Pow2(max_prefix) - 1), max_prefix)

\* The second loop of RunLengthCodeZeros from entry k on.
RECURSIVE RleLoop(_, _, _)
RleLoop(v_in, k, max_prefix) ==
  IF k > Len(v_in) THEN <<>>
  ELSE IF v_in[k] # 0
  THEN <<[symbol |-> v_in[k] + max_prefix, extra |-> 0]>>
       \o RleLoop(v_in, k + 1, max_prefix)
  ELSE LET reps == ZeroRun(v_in, k)
       IN  RunTokens(reps, max_prefix) \o RleLoop(v_in, k + reps, max_prefix)

\* RunLengthCodeZeros: the lowered *max_run_length_prefix, *v_out, *extra_bits.
RunLengthCodeZeros(v_in, max_prefix_in) ==
  LET max_reps == MaxReps(v_in)
      max_prefix == IF max_reps > 0 THEN Log2Floor(max_reps) ELSE 0
      eff == IF max_prefix < max_prefix_in THEN max_prefix ELSE max_prefix_in
      tokens == RleLoop(v_in, 1, eff)
  IN  [max_run_length_prefix |-> eff,
       v_out |-> [k \in 1..Len(tokens) |-> tokens[k].symbol],
       extra_bits |-> [k \in 1..Len(tokens) |-> tokens[k].extra]]

(***************************************************************************)
(* The decoder's side of the context map, as the format defines it.        *)
(***************************************************************************)
\* Token p <= max_prefix with extra value e is a run of 2^p + e zeros; a
\* larger token t is the value t - max_prefix.
RECURSIVE InverseRunLength(_, _, _)
InverseRunLength(symbols, extras, max_prefix) ==
  IF symbols = <<>> THEN <<>>
  ELSE (IF Head(symbols) <= max_prefix
        THEN [k \in 1..(Pow2(Head(symbols)) + Head(extras)) |-> 0]
        ELSE <<Head(symbols) - max_prefix>>)
       \o InverseRunLength(Tail(symbols), Tail(extras), max_prefix)

\* Inverse move-to-front over the list mtf.
RECURSIVE InverseMtfLoop(_, _)
InverseMtfLoop(indexes, mtf) ==
  IF indexes = <<>> THEN <<>>
  ELSE <<mtf[Head(indexes) + 1]>>
       \o InverseMtfLoop(Tail(indexes), MoveToFront(mtf, Head(indexes)))

InverseMoveToFront(indexes) ==
  InverseMtfLoop(indexes, [k \in 1..(MaxVal + 2) |-> k - 1])

(***************************************************************************)
(* The transforms as steps.                                                *)
(***************************************************************************)
RECURSIVE VectorsOfLen(_)
VectorsOfLen(n) ==
  IF n = 0 THEN {<<>>}
  ELSE {Append(v, x) : v \in VectorsOfLen(n - 1), x \in 0..MaxVal}

Vectors == UNION {VectorsOfLen(n) : n \in 0..MaxLen}

CmIdle ==
  /\ cm_pc = "idle"
  /\ context_map = <<>>
  /\ transformed_symbols = <<>>
  /\ max_run_length_prefix = 0
  /\ rle_symbols = <<>>
  /\ extra_bits = <<>>
  /\ num_clusters = 0

CmInit ==
  /\ cm_pc = "start"
  /\ context_map \in Vectors
  /\ transformed_symbols = <<>>
  /\ max_run_length_prefix \in 0..kMaxRunLengthPrefix
  /\ rle_symbols = <<>>
  /\ extra_bits = <<>>
  /\ num_clusters = 0

DoMoveToFrontTransform ==
  /\ cm_pc = "start"
  /\ transformed_symbols' = MoveToFrontTransform(context_map)
  /\ cm_pc' = "mtf"
  /\ UNCHANGED <<context_map, max_run_length_prefix, rle_symbols, extra_bits,
               num_clusters>>
  /\ UNCHANGED <<driver_vars, smb_vars, bt_vars, wr_vars>>

DoRunLengthCodeZeros ==
  /\ cm_pc = "mtf"
  /\ LET r == RunLengthCodeZeros(transformed_symbols, max_run_length_prefix)
     IN  /\ max_run_length_prefix' = r.max_run_length_prefix
         /\ rle_symbols' = rle_symbols \o r.v_out
         /\ extra_bits' = extra_bits \o r.extra_bits
  /\ cm_pc' = "rle"
  /\ UNCHANGED <<context_map, transformed_symbols, num_clusters>>
  /\ UNCHANGED <<driver_vars, smb_vars, bt_vars, wr_vars>>

CmNext ==
  \/ DoMoveToFrontTransform
  \/ DoRunLengthCodeZeros

(***************************************************************************)
(* EncodeContextMap.  Its WriteBits calls, and its calls of                *)
(* StoreHuffmanCode and EntropyEncode, are recorded in wr_bits.            *)
(***************************************************************************)
\* One WriteBits call, as the serialising functions make it.
Wr(n_bits, bits) == [fn |-> "WriteBits", n_bits |-> n_bits, bits |-> bits]

\* A call of another serialiser, with its size or symbol argument.
Sub(fn, size) == [fn |-> fn, n_bits |-> 0, bits |-> size]

\* The cap on the histograms of one stream, which bounds num_clusters.
kMaxNumberOfHistograms == 240

MaxSegments == 2       \* runs of equal entries a context map starts with

\* The loop of BestMaxZeroRunLengthPrefix from max_prefix on: the values
\* it reaches before the break.
RECURSIVE PrefixLoop(_, _)
PrefixLoop(v, max_prefix) ==
  IF max_prefix > kMaxRunLengthPrefix THEN {}
  ELSE IF RunLengthCodeZeros(v, max_prefix).max_run_length_prefix < max_prefix
  THEN {}
  ELSE {max_prefix} \cup PrefixLoop(v, max_prefix + 1)

\* Mutant: the loop does not break when the prefix was lowered.
MutBestMaxZeroRunLengthPrefix(v) == 0..kMaxRunLengthPrefix

\* BestMaxZeroRunLengthPrefix: the values it can return.  PopulationCost
\* decides which of the values the loop reaches has the least cost.
BestMaxZeroRunLengthPrefix(v) == PrefixLoop(v, 0)

\* The symbol loop at the end of EncodeContextMap, from entry k on.
RECURSIVE SymbolLoop(_, _, _, _)
SymbolLoop(symbols, extras, max_prefix, k) ==
  IF k > Len(symbols) THEN <<>>
  ELSE <<Sub("EntropyEncode", symbols[k])>> \o
       (IF symbols[k] > 0 /\ symbols[k] <= max_prefix
        THEN <<Wr(symbols[k], extras[k])>>
        ELSE <<>>) \o
       SymbolLoop(symbols, extras, max_prefix, k + 1)

\* A run of equal entries.
Expand(segments) ==
  IF segments = <<>> THEN <<>>
  ELSE LET first == Head(segments)
       IN  [k \in 1..first.run |-> first.value]

RECURSIVE ExpandAll(_)
ExpandAll(segments) ==
  IF segments = <<>> THEN <<>>
  ELSE Expand(segments) \o ExpandAll(Tail(segments))

\* Lengths of the runs of equal entries.
RunLengths == {1, 2, 4, 9, 17}

RECURSIVE SegmentLists(_, _)
SegmentLists(n, values) ==
  IF n = 0 THEN {<<>>}
  ELSE {Append(l, [value |-> x, run |-> r]) :
          l \in SegmentLists(n - 1, values), x \in values, r \in RunLengths}

\* Context maps over the cluster ids 0..clusters-1: some runs of equal
\* entries, each the first id, the second or the last.
ContextMapsOf(clusters) ==
  LET values == {0, 1, clusters - 1} \cap (0..(clusters - 1))
  IN  {ExpandAll(l) :
         l \in UNION {SegmentLists(n, values) : n \in 1..MaxSegments}}

\* The cluster counts checked.
NumClusters == {1, 2, 3, kMaxNumberOfHistograms}

EcmInit ==
  /\ cm_pc = "entry"
  /\ num_clusters \in NumClusters
  /\ context_map \in ContextMapsOf(num_clusters)
  /\ transformed_symbols = <<>>
  /\ max_run_length_prefix = 0
  /\ rle_symbols = <<>>
  /\ extra_bits = <<>>

\* WriteBits(8, num_clusters - 1) and the return for one cluster.
EcmBegin ==
  /\ cm_pc = "entry"
  /\ wr_bits' = Append(wr_bits, Wr(8, num_clusters - 1))
  /\ cm_pc' = IF num_clusters = 1 THEN "returned" ELSE "start"
  /\ UNCHANGED <<context_map, transformed_symbols, max_run_length_prefix,
               rle_symbols, extra_bits, num_clusters, wr_pc, wr_call>>
  /\ UNCHANGED <<driver_vars, smb_vars, bt_vars>>

DoBestMaxZeroRunLengthPrefix ==
  /\ cm_pc = "mtf"
  /\ max_run_length_prefix' \in BestMaxZeroRunLengthPrefix(transformed_symbols)
  /\ cm_pc' = "best"
  /\ UNCHANGED <<context_map, transformed_symbols, rle_symbols, extra_bits,
               num_clusters>>
  /\ UNCHANGED <<driver_vars, smb_vars, bt_vars, wr_vars>>

\* RunLengthCodeZeros with the chosen prefix, and everything after it.
EcmStore ==
  /\ cm_pc = "best"
  /\ LET r == RunLengthCodeZeros(transformed_symbols, max_run_length_prefix)
         use_rle == r.max_run_length_prefix > 0
     IN  /\ max_run_length_prefix' = r.max_run_length_prefix
         /\ rle_symbols' = rle_symbols \o r.v_out
         /\ extra_bits' = extra_bits \o r.extra_bits
         /\ wr_bits' = wr_bits \o
              <<Wr(1, IF use_rle THEN 1 ELSE 0)>> \o
              (IF use_rle THEN <<Wr(4, r.max_run_length_prefix - 1)>>
               ELSE <<>>) \o
              <<Sub("StoreHuffmanCode",
                    num_clusters + r.max_run_length_prefix)>> \o
              SymbolLoop(r.v_out, r.extra_bits, r.max_run_length_prefix, 1) \o
              <<Wr(1, 1)>>
  /\ cm_pc' = "returned"
  /\ UNCHANGED <<context_map, transformed_symbols, num_clusters, wr_pc,
               wr_call>>
  /\ UNCHANGED <<driver_vars, smb_vars, bt_vars>>

EcmNext ==
  \/ EcmBegin
  \/ DoMoveToFrontTransform
  \/ DoBestMaxZeroRunLengthPrefix
  \/ EcmStore

(***************************************************************************)
(* StoreMetaBlock.  What it emits is recorded as a sequence of events, one *)
(* per call that writes a field or a symbol:                               *)
(*   [sec, a, b]  sec the kind of field, a and b what it belongs to.       *)
(* The extra-bit counts of a command (InsertLengthExtraBits,               *)
(* CopyLengthExtraBits of its code) are fields of the command here.        *)
(***************************************************************************)
kSentinel == 65535

Ev(sec, a, b) == [sec |-> sec, a |-> a, b |-> b]

\* BuildAndEncodeBlockSplitCode: one bit, and for several types the count, the
\* two prefix codes and the first block length.
BuildAndEncodeBlockSplitCode(split, stream) ==
  IF split.num_types_ <= 1
  THEN <<Ev("split_code", stream, 0)>>
  ELSE <<Ev("split_code", stream, 1),
         Ev("num_types", stream, split.num_types_ - 1),
         Ev("type_code_huffman", stream, 0),
         Ev("length_code_huffman", stream, 0),
         Ev("first_block_length", stream, split.lengths_[1])>>

\* BlockSplitIterator(split).
BlockSplitIterator(split) ==
  [idx_ |-> 0, type_ |-> 0,
   length_ |-> IF split.lengths_ = <<>> THEN 0 ELSE split.lengths_[1]]

\* Mutant: the symbol that opens a run is not counted against its length.
MutMoveAndEncode(split, it, stream) ==
  IF it.length_ = 0
  THEN [it |-> [idx_ |-> it.idx_ + 1,
                type_ |-> split.types_[it.idx_ + 2],
                length_ |-> split.lengths_[it.idx_ + 2]],
        events |-> <<Ev("block_type", stream,
                        split.type_codes_[it.idx_ + 2] % 256),
                     Ev("block_length", stream, split.lengths_[it.idx_ + 2])>>]
  ELSE [it |-> [it EXCEPT !.length_ = it.length_ - 1], events |-> <<>>]

\* MoveAndEncode: the iterator after the call and the events of the call.
\* The type code goes through a uint8_t on its way to EntropyEncode.
MoveAndEncode(split, it, stream) ==
  IF it.length_ = 0
  THEN [it |-> [idx_ |-> it.idx_ + 1,
                type_ |-> split.types_[it.idx_ + 2],
                length_ |-> split.lengths_[it.idx_ + 2] - 1],
        events |-> <<Ev("block_type", stream,
                        split.type_codes_[it.idx_ + 2] % 256),
                     Ev("block_length", stream, split.lengths_[it.idx_ + 2])>>]
  ELSE [it |-> [it EXCEPT !.length_ = it.length_ - 1], events |-> <<>>]

\* Mutant: the copy-length extra bits come before the insert-length extra bits.
MutEncodeCommand(c, n) ==
  <<Ev("command", n, 0)>>
  \o (IF c.copy_extra_bits > 0 THEN <<Ev("copy_extra", n, 0)>> ELSE <<>>)
  \o (IF c.insert_extra_bits > 0 THEN <<Ev("insert_extra", n, 0)>> ELSE <<>>)

\* EncodeCommand for the n-th command c.
EncodeCommand(c, n) ==
  <<Ev("command", n, 0)>>
  \o (IF c.insert_extra_bits > 0 THEN <<Ev("insert_extra", n, 0)>> ELSE <<>>)
  \o (IF c.copy_extra_bits > 0 THEN <<Ev("copy_extra", n, 0)>> ELSE <<>>)

\* EncodeCopyDistance for the n-th command c.
EncodeCopyDistance(c, n) ==
  <<Ev("distance", n, 0)>>
  \o (IF c.distance_extra_bits_ > 0 THEN <<Ev("distance_extra", n, 0)>> ELSE <<>>)

\* MetaBlockLength.
RECURSIVE MetaBlockLength(_)
MetaBlockLength(cmds) ==
  IF cmds = <<>> THEN 0
  ELSE Head(cmds).insert_length_ + Head(cmds).copy_length_
       + MetaBlockLength(Tail(cmds))

\* The literal loop of the n-th command from literal j on: [it, p, events,
\* trace], the trace being the iterator after each MoveAndEncode.
RECURSIVE LiteralLoop(_, _, _, _, _)
LiteralLoop(m, n, j, it, p) ==
  IF j >= m.cmds[n].insert_length_
  THEN [it |-> it, p |-> p, events |-> <<>>, trace |-> <<>>]
  ELSE LET mv == MoveAndEncode(m.literal_split, it, "literal")
           rest == LiteralLoop(m, n, j + 1, mv.it, p + 1)
       IN  [it |-> rest.it, p |-> rest.p,
            events |-> mv.events \o <<Ev("literal", n, j)>> \o rest.events,
            trace |-> <<[stream |-> "literal", it |-> mv.it]>> \o rest.trace]

\* The body of StoreMetaBlock from the n-th command on, with the three
\* iterators and *pos: [p, events, trace].
RECURSIVE BodyLoop(_, _, _, _, _, _, _)
BodyLoop(m, n, lit, cit, dit, p, end_pos) ==
  IF n > Len(m.cmds) THEN [p |-> p, events |-> <<>>, trace |-> <<>>]
  ELSE
    LET c == m.cmds[n]
        cm == MoveAndEncode(m.command_split, cit, "command")
        ll == LiteralLoop(m, n, 0, lit, p)
        has_dist == ll.p < end_pos /\ c.distance_prefix_ # kSentinel
        dm == IF has_dist THEN MoveAndEncode(m.distance_split, dit, "distance")
              ELSE [it |-> dit, events |-> <<>>]
        rest == BodyLoop(m, n + 1, ll.it, cm.it, dm.it,
                         ll.p + c.copy_length_, end_pos)
    IN  [p |-> rest.p,
         events |-> cm.events \o EncodeCommand(c, n) \o ll.events
                    \o dm.events
                    \o (IF has_dist THEN EncodeCopyDistance(c, n) ELSE <<>>)
                    \o rest.events,
         trace |-> <<[stream |-> "command", it |-> cm.it]>> \o ll.trace
                   \o (IF has_dist
                       THEN <<[stream |-> "distance", it |-> dm.it]>>
                       ELSE <<>>)
                   \o rest.trace]

\* StoreMetaBlock: *pos after the call, the events in emission order and the
\* iterators after each MoveAndEncode.
StoreMetaBlock(m, p) ==
  LET length == MetaBlockLength(m.cmds)
      end_pos == p + length
      body == BodyLoop(m, 1, BlockSplitIterator(m.literal_split),
                       BlockSplitIterator(m.command_split),
                       BlockSplitIterator(m.distance_split), p, end_pos)
  IN  [p |-> body.p,
       trace |-> body.trace,
       events |->
         <<Ev("length", length - 1, 0)>>
         \o BuildAndEncodeBlockSplitCode(m.literal_split, "literal")
         \o BuildAndEncodeBlockSplitCode(m.command_split, "command")
         \o BuildAndEncodeBlockSplitCode(m.distance_split, "distance")
         \o <<Ev("postfix_bits", 2, m.params.distance_postfix_bits),
              Ev("ndirect", 4, m.params.num_direct_distance_codes
                               \div Pow2(m.params.distance_postfix_bits))>>
         \o [k \in 1..m.literal_split.num_types_ |->
               Ev("context_mode", 2, m.literal_context_modes[k])]
         \o <<Ev("context_map", "literal", m.num_literal_histograms),
              Ev("context_map", "distance", m.num_distance_histograms)>>
         \o [k \in 1..m.num_literal_histograms |-> Ev("huffman", "literal", k)]
         \o [k \in 1..m.num_command_histograms |-> Ev("huffman", "command", k)]
         \o [k \in 1..m.num_distance_histograms |-> Ev("huffman", "distance", k)]
         \o body.events]

(***************************************************************************)
(* The meta-blocks handed to StoreMetaBlock.                               *)
(***************************************************************************)
CONTEXT_SIGNED == 3

\* The params WriteMetaBlock sets.
Params == [num_direct_distance_codes |-> 12, distance_postfix_bits |-> 1,
           literal_context_mode |-> CONTEXT_SIGNED]

\* Commands as CreateBackwardReferences leaves them: a copy (copy_length_
\* and copy_length_code_ > 0), or literals only (the last command).  The
\* field CommandPrefix is what CommandPrefix(insert_length_,
\* copy_length_code_) returns for the command and the field
\* PrefixEncodeCopyDistance the prefix PrefixEncodeCopyDistance stores for
\* its distance_code_; command_prefix_ and distance_prefix_ hold what the
\* Command was built with.
InsertLengths == {0, 1, 2}
CopyLengthCodes == {2, 3}

\* InsertLengthExtraBits and CopyLengthExtraBits of the command's codes: the
\* longer lengths carry extra bits.
InsertLengthExtraBits(insert_length) == IF insert_length >= 2 THEN 1 ELSE 0
CopyLengthExtraBits(copy_length_code) == IF copy_length_code >= 3 THEN 1 ELSE 0

\* CommandPrefix of the two lengths: the short copies are below 128.
CommandPrefix(insert_length, copy_length_code) ==
  IF copy_length_code >= 3 THEN 200 + insert_length ELSE 5 + insert_length

CopyCommands ==
  {[insert_length_ |-> il, copy_length_ |-> 2, copy_length_code_ |-> cl,
    insert_extra_bits |-> InsertLengthExtraBits(il),
    copy_extra_bits |-> CopyLengthExtraBits(cl),
    CommandPrefix |-> CommandPrefix(il, cl),
    PrefixEncodeCopyDistance |-> dp[1],
    command_prefix_ |-> 0, distance_prefix_ |-> 0,
    distance_extra_bits_ |-> dp[2]] :
      il \in InsertLengths, cl \in CopyLengthCodes,
      dp \in {<<0, 0>>, <<3, 0>>, <<3, 1>>}}

InsertCommands ==
  {[insert_length_ |-> il, copy_length_ |-> 0, copy_length_code_ |-> 0,
    insert_extra_bits |-> InsertLengthExtraBits(il),
    copy_extra_bits |-> 0,
    CommandPrefix |-> CommandPrefix(il, 0), PrefixEncodeCopyDistance |-> 0,
    command_prefix_ |-> 0, distance_prefix_ |-> dp,
    distance_extra_bits_ |-> 0] :
      il \in InsertLengths \ {0}, dp \in {0, 3}}

\* Mutant: the sentinel is set whenever the distance prefix is 0.
MutComputeCommandPrefix(c) ==
  LET command_prefix == c.CommandPrefix
      distance_prefix == IF c.copy_length_code_ > 0
                         THEN c.PrefixEncodeCopyDistance
                         ELSE c.distance_prefix_
  IN  IF distance_prefix = 0
      THEN [c EXCEPT !.command_prefix_ = command_prefix,
                     !.distance_prefix_ = kSentinel]
      ELSE [c EXCEPT !.command_prefix_ = command_prefix + 128,
                     !.distance_prefix_ = distance_prefix]

\* One iteration of ComputeCommandPrefixes.
ComputeCommandPrefix(c) ==
  LET command_prefix == c.CommandPrefix
      distance_prefix == IF c.copy_length_code_ > 0
                         THEN c.PrefixEncodeCopyDistance
                         ELSE c.distance_prefix_
  IN  IF command_prefix < 128 /\ distance_prefix = 0
      THEN [c EXCEPT !.command_prefix_ = command_prefix,
                     !.distance_prefix_ = kSentinel]
      ELSE [c EXCEPT !.command_prefix_ = command_prefix + 128,
                     !.distance_prefix_ = distance_prefix]

ComputeCommandPrefixes(cmds) ==
  [n \in 1..Len(cmds) |-> ComputeCommandPrefix(cmds[n])]

\* The block splits of a stream of n symbols: one run, or two runs of types
\* 0 and 1 (the type codes as ComputeBlockTypeShortCodes gives them).
Splits(n) ==
  {[num_types_ |-> 1, types_ |-> IF n = 0 THEN <<>> ELSE <<0>>,
    lengths_ |-> IF n = 0 THEN <<>> ELSE <<n>>, type_codes_ |-> <<>>]}
  \cup {[num_types_ |-> 2, types_ |-> <<0, 1>>, lengths_ |-> <<k, n - k>>,
         type_codes_ |-> <<0, 0>>] : k \in 1..(n - 1)}

RECURSIVE NumLiterals(_)
NumLiterals(cmds) ==
  IF cmds = <<>> THEN 0
  ELSE Head(cmds).insert_length_ + NumLiterals(Tail(cmds))

\* The commands that emit a distance symbol: a copy that does not end at
\* end_pos with nothing copied, and no sentinel.
NumDistances(cmds) ==
  Cardinality({n \in 1..Len(cmds) :
                 cmds[n].copy_length_ > 0 /\ cmds[n].distance_prefix_ # kSentinel})

\* The MetaBlock BuildMetaBlock makes of the commands: their prefixes, the splits SplitBlock
\* gives, one context mode per literal type, one histogram per type.
MetaBlocksOf(cmds) ==
  LET prefixed == ComputeCommandPrefixes(cmds) IN
  {[cmds |-> prefixed, params |-> Params,
    literal_split |-> ls, command_split |-> cs, distance_split |-> ds,
    literal_context_modes |->
      [k \in 1..ls.num_types_ |-> Params.literal_context_mode],
    num_literal_histograms |-> ls.num_types_,
    num_command_histograms |-> cs.num_types_,
    num_distance_histograms |-> ds.num_types_] :
      ls \in Splits(NumLiterals(prefixed)),
      cs \in {x \in Splits(Len(prefixed)) :
                x.num_types_ = 1 \/ x.lengths_[1] <= 1},
      ds \in {x \in Splits(NumDistances(prefixed)) :
                x.num_types_ = 1 \/ x.lengths_[1] <= 1}}

NoMetaBlock == [cmds |-> <<>>]

SmbIdle ==
  /\ smb_pc = "idle"
  /\ mb = NoMetaBlock
  /\ input_pos_ = 0
  /\ emitted = <<>>
  /\ it_trace = <<>>

SmbInit ==
  /\ smb_pc = "commands"
  /\ mb = NoMetaBlock
  /\ input_pos_ = 0
  /\ emitted = <<>>
  /\ it_trace = <<>>

\* CreateBackwardReferences appends a command; a command without a copy is
\* the last one.
CreateCommand(c) ==
  /\ smb_pc = "commands"
  /\ Len(mb.cmds) < MaxMbCmds
  /\ mb.cmds # <<>> => mb.cmds[Len(mb.cmds)].copy_length_ > 0
  /\ mb' = [cmds |-> Append(mb.cmds, c)]
  /\ UNCHANGED <<smb_pc, input_pos_, emitted, it_trace>>
  /\ UNCHANGED <<driver_vars, cm_vars, bt_vars, wr_vars>>

\* BuildMetaBlock.
DoBuildMetaBlock ==
  /\ smb_pc = "commands"
  /\ mb.cmds # <<>>
  /\ mb' \in MetaBlocksOf(mb.cmds)
  /\ smb_pc' = "built"
  /\ UNCHANGED <<input_pos_, emitted, it_trace>>
  /\ UNCHANGED <<driver_vars, cm_vars, bt_vars, wr_vars>>

DoStoreMetaBlock ==
  /\ smb_pc = "built"
  /\ LET r == StoreMetaBlock(mb, input_pos_)
     IN  /\ input_pos_' = r.p
         /\ emitted' = emitted \o r.events
         /\ it_trace' = it_trace \o r.trace
  /\ smb_pc' = "stored"
  /\ UNCHANGED mb
  /\ UNCHANGED <<driver_vars, cm_vars, bt_vars, wr_vars>>

SmbNext ==
  \/ \E c \in CopyCommands \cup InsertCommands : CreateCommand(c)
  \/ DoBuildMetaBlock
  \/ DoStoreMetaBlock


(***************************************************************************)
(* ComputeBlockTypeShortCodes and the type codes MoveAndEncode hands to    *)
(* EntropyEncode.                                                          *)
(***************************************************************************)
\* The type code of one run.  index is a size_t: (index - 1) & 1 is 1 for
\* index 0, which is what the non-negative remainder gives.
TypeCode(type, ringbuffer, index) ==
  IF type = ringbuffer[index % 2] THEN 0
  ELSE IF type = ringbuffer[(index - 1) % 2] + 1 THEN 1
  ELSE type + 2

\* The loop of ComputeBlockTypeShortCodes from run k on: the codes pushed.
RECURSIVE TypeCodeLoop(_, _, _, _)
TypeCodeLoop(types, k, ringbuffer, index) ==
  IF k > Len(types) THEN <<>>
  ELSE <<TypeCode(types[k], ringbuffer, index)>>
       \o TypeCodeLoop(types, k + 1,
                       [ringbuffer EXCEPT ![index % 2] = types[k]], index + 1)

InitialTypeRing == [k \in 0..1 |-> k]

ComputeBlockTypeShortCodes(split) ==
  IF split.num_types_ <= 1 THEN [split EXCEPT !.num_types_ = 1]
  ELSE [split EXCEPT !.type_codes_ =
          split.type_codes_ \o TypeCodeLoop(split.types_, 1, InitialTypeRing, 0)]

\* The decoder's side: the same ring, read by the code.
RECURSIVE DecodeBlockTypes(_, _, _, _)
DecodeBlockTypes(codes, k, ringbuffer, index) ==
  IF k > Len(codes) THEN <<>>
  ELSE LET type == IF codes[k] = 0 THEN ringbuffer[index % 2]
                   ELSE IF codes[k] = 1 THEN ringbuffer[(index - 1) % 2] + 1
                   ELSE codes[k] - 2
       IN  <<type>> \o DecodeBlockTypes(codes, k + 1,
                         [ringbuffer EXCEPT ![index % 2] = type], index + 1)

\* The splits: every count of types around the ends of the 8-bit field
\* num_types - 1, runs of length 1 of types below the count; one type is
\* one run.
MaxRuns == 3
NumTypes == {1, 2, 3, 254, 255, 256}
TypeValues == {0, 1, 2, 253, 254, 255}

RECURSIVE TypeLists(_, _)
TypeLists(n, values) ==
  IF n = 0 THEN {<<>>}
  ELSE {Append(t, v) : t \in TypeLists(n - 1, values), v \in values}

TypeSplitsOf(nt) ==
  {[num_types_ |-> nt, types_ |-> ts, lengths_ |-> [k \in 1..Len(ts) |-> 1],
    type_codes_ |-> <<>>] :
      ts \in UNION {TypeLists(n, {v \in TypeValues : v < nt}) :
                      n \in 1..(IF nt = 1 THEN 1 ELSE MaxRuns)}}

TypeSplits == UNION {TypeSplitsOf(nt) : nt \in NumTypes}

NoIterator == [idx_ |-> 0, type_ |-> 0, length_ |-> 0]

BtIdle ==
  /\ bt_pc = "idle"
  /\ bt_split = [num_types_ |-> 1, types_ |-> <<>>, lengths_ |-> <<>>,
                 type_codes_ |-> <<>>]
  /\ bt_it = NoIterator
  /\ passed = <<>>

BtInit ==
  /\ bt_pc = "split"
  /\ bt_split \in TypeSplits
  /\ bt_it = NoIterator
  /\ passed = <<>>

\* BuildMetaBlock: ComputeBlockTypeShortCodes(&split).
DoComputeBlockTypeShortCodes ==
  /\ bt_pc = "split"
  /\ bt_split' = ComputeBlockTypeShortCodes(bt_split)
  /\ bt_pc' = "coded"
  /\ UNCHANGED <<bt_it, passed>>
  /\ UNCHANGED <<driver_vars, cm_vars, smb_vars, wr_vars>>

\* StoreMetaBlock: BlockSplitIterator it(split).
NewBlockSplitIterator ==
  /\ bt_pc = "coded"
  /\ bt_it' = BlockSplitIterator(bt_split)
  /\ bt_pc' = "body"
  /\ UNCHANGED <<bt_split, passed>>
  /\ UNCHANGED <<driver_vars, cm_vars, smb_vars, wr_vars>>

\* StoreMetaBlock: MoveAndEncode for the next symbol of the stream.
DoMoveAndEncode ==
  /\ bt_pc = "body"
  /\ ~(bt_it.idx_ = Len(bt_split.lengths_) - 1 /\ bt_it.length_ = 0)
  /\ LET mv == MoveAndEncode(bt_split, bt_it, "literal")
     IN  /\ bt_it' = mv.it
         /\ passed' = passed \o [k \in 1..(Len(mv.events) \div 2) |->
                                   mv.events[2 * k - 1].b]
  /\ UNCHANGED <<bt_pc, bt_split>>
  /\ UNCHANGED <<driver_vars, cm_vars, smb_vars, wr_vars>>

BtNext ==
  \/ DoComputeBlockTypeShortCodes
  \/ NewBlockSplitIterator
  \/ DoMoveAndEncode

(***************************************************************************)
(* The serialising functions checked on their own.                         *)
(***************************************************************************)
NoCall == [fn |-> "none"]

WrIdle ==
  /\ wr_pc = "idle"
  /\ wr_call = NoCall
  /\ wr_bits = <<>>

\* The while loop of EncodeMetaBlockLength and the if that follows it.
RECURSIVE NibbleLoop(_, _)
NibbleLoop(meta_block_size, num_bits) ==
  IF num_bits > 0
  THEN <<Wr(4, meta_block_size % 16)>> \o
       NibbleLoop(meta_block_size \div 16, num_bits - 4)
  ELSE IF num_bits > 0
       THEN <<Wr(num_bits, meta_block_size)>>
       ELSE <<>>

\* Mutant: the nibble count is rounded down.
MutEncodeMetaBlockLength(meta_block_size) ==
  LET num_bits == Log2Floor(meta_block_size) + 1
  IN  <<Wr(1, 0), Wr(3, num_bits \div 4)>> \o
      NibbleLoop(meta_block_size, num_bits)

\* EncodeMetaBlockLength: the WriteBits calls it makes, in order.
EncodeMetaBlockLength(meta_block_size) ==
  LET num_bits == Log2Floor(meta_block_size) + 1
  IN  <<Wr(1, 0), Wr(3, (num_bits + 3) \div 4)>> \o
      NibbleLoop(meta_block_size, num_bits)

\* Sizes handed to EncodeMetaBlockLength: the small ones and the ones
\* around every power of two below 2^kMetaBlockSizeBits.
MetaBlockSizes ==
  {n \in (1..17) \cup
         {Pow2(k) + d : k \in 4..kMetaBlockSizeBits, d \in {-1, 0, 1}} :
     n < Pow2(kMetaBlockSizeBits)}

MetaBlockLengthCalls ==
  {[fn |-> "EncodeMetaBlockLength", meta_block_size |-> n] :
     n \in MetaBlockSizes}

\* The loop of StoreHuffmanCode that counts the bits of alphabet_size - 1.
RECURSIVE MaxBits(_)
MaxBits(max_bits_counter) ==
  IF max_bits_counter = 0 THEN 0 ELSE 1 + MaxBits(max_bits_counter \div 2)

\* symbols[k] and symbols[j] exchanged (positions count from 0).
Swap(symbols, k, j) ==
  [symbols EXCEPT ![k + 1] = symbols[j + 1], ![j + 1] = symbols[k + 1]]

\* The inner loop of the quadratic sort, from j to count_ - 1.
RECURSIVE SortInner(_, _, _, _)
SortInner(symbols, depth, k, j) ==
  IF j >= Len(symbols) THEN symbols
  ELSE SortInner(IF depth[symbols[j + 1]] < depth[symbols[k + 1]]
                 THEN Swap(symbols, k, j)
                 ELSE symbols,
                 depth, k, j + 1)

\* The outer loop of the quadratic sort, from k to count_ - 1.
RECURSIVE SortOuter(_, _, _)
SortOuter(symbols, depth, k) ==
  IF k >= Len(symbols) THEN symbols
  ELSE SortOuter(SortInner(symbols, depth, k, k + 1), depth, k + 1)

\* Mutant: the symbols are copied and left in the order of symbols_.
MutQuadraticSort(code) == SubSeq(code.symbols_, 1, code.count_)

\* The copy of the first count_ symbols and the quadratic sort on it.
QuadraticSort(code) ==
  SortOuter(SubSeq(code.symbols_, 1, code.count_), code.depth_, 0)

\* The simple form of StoreHuffmanCode: one to four symbols.
SimpleHuffmanCode(code, max_bits) ==
  LET symbols == QuadraticSort(code)
  IN  <<Wr(1, 1), Wr(2, code.count_ - 1)>> \o
      [n \in 1..code.count_ |-> Wr(max_bits, symbols[n])] \o
      (IF code.count_ = 4
       THEN (IF \A n \in 1..4 : code.depth_[symbols[n]] = 2
             THEN <<Wr(1, 0)>>
             ELSE <<Wr(1, 1)>>)
       ELSE <<>>)

\* Log2Ceiling of fast_log.h: the least k with n <= 2^k.
Log2Ceiling(n) ==
  IF n = Pow2(Log2Floor(n)) \/ n = 0 THEN Log2Floor(n) ELSE Log2Floor(n) + 1

\* Mutant: the pair count is rounded down.
MutNBitPairs(nbits) == IF nbits = 0 THEN 1 ELSE nbits \div 2

\* nbitpairs as StoreHuffmanCode computes it from nbits, in both places.
NBitPairs(nbits) == IF nbits = 0 THEN 1 ELSE (nbits + 1) \div 2

\* The test that decides whether the trimmed code-length sequence is
\* written; tree holds what WriteHuffmanTree, the trimming loop and
\* HuffmanTreeBitCost returned.
WriteLength(tree) ==
  /\ tree.trimmed_size > 1
  /\ tree.trimmed_size < tree.huffman_tree_size
  /\ LET nbits == Log2Ceiling(tree.trimmed_size - 1)
         nbitpairs == NBitPairs(nbits)
     IN  tree.trimmed_bit_cost + 3 + 2 * nbitpairs < tree.huffman_bit_cost

\* The full form of StoreHuffmanCode; the two tree serialisers are
\* recorded as calls.
FullHuffmanCode(tree) ==
  LET write_length == WriteLength(tree)
      huffman_tree_size == IF write_length THEN tree.trimmed_size
                           ELSE tree.huffman_tree_size
      nbits == Log2Ceiling(huffman_tree_size - 1)
      nbitpairs == NBitPairs(nbits)
  IN  <<Wr(1, 0), Sub("StoreHuffmanTreeOfHuffmanTreeToBitMask", 0),
        Wr(1, IF write_length THEN 1 ELSE 0)>> \o
      (IF write_length
       THEN <<Wr(3, nbitpairs - 1), Wr(nbitpairs * 2, huffman_tree_size - 2)>>
       ELSE <<>>) \o
      <<Sub("StoreHuffmanTreeToBitMask", huffman_tree_size)>>

\* StoreHuffmanCode: the calls it makes, in order.
StoreHuffmanCode(code, alphabet_size, tree) ==
  LET max_bits == MaxBits(alphabet_size - 1)
  IN  IF code.count_ = 0 THEN <<Wr(3 + max_bits, 1)>>
      ELSE IF code.count_ <= 4 THEN SimpleHuffmanCode(code, max_bits)
      ELSE FullHuffmanCode(tree)

\* Alphabets of the simple-form calls.
AlphabetSizes == {4, 5}

\* The depth lists a Huffman code gives to count symbols, count <= 4.
SimpleDepths(count) ==
  IF count = 0 THEN {<<>>}
  ELSE IF count = 1 THEN {<<0>>, <<1>>}
  ELSE IF count = 2 THEN {<<1, 1>>}
  ELSE IF count = 3 THEN {<<1, 2, 2>>, <<2, 1, 2>>, <<2, 2, 1>>}
  ELSE {<<2, 2, 2, 2>>} \cup
       {d \in [1..4 -> 1..3] :
          /\ Cardinality({n \in 1..4 : d[n] = 1}) = 1
          /\ Cardinality({n \in 1..4 : d[n] = 2}) = 1}

\* The members of a set of symbols in ascending order, as
\* BuildEntropyCode lists them in symbols_.
RECURSIVE Ascending(_)
Ascending(set) ==
  IF set = {} THEN <<>>
  ELSE LET least == CHOOSE x \in set : \A y \in set : x <= y
       IN  <<least>> \o Ascending(set \ {least})

\* An EntropyCode with the given symbols and their depths.
SimpleCode(set, d) ==
  LET symbols == Ascending(set)
  IN  [count_ |-> Len(symbols),
       symbols_ |-> symbols,
       depth_ |-> [x \in set |-> d[CHOOSE n \in 1..Len(symbols) :
                                     symbols[n] = x]]]

NoTree == [huffman_tree_size |-> 0, trimmed_size |-> 0,
           huffman_bit_cost |-> 0, trimmed_bit_cost |-> 0]

SimpleCodeCalls ==
  {[fn |-> "StoreHuffmanCode", code |-> SimpleCode(c[1], c[2]),
    alphabet_size |-> c[3], tree |-> NoTree] :
     c \in UNION {UNION {{<<set, d, a>> : d \in SimpleDepths(Cardinality(set))} :
                           set \in {x \in SUBSET (0..(a - 1)) :
                                      Cardinality(x) <= 4}} :
                    a \in AlphabetSizes}}

\* The largest alphabet StoreHuffmanCode is instantiated with.
kNumCommandPrefixes == 704

\* Sizes of the trimmed code-length sequence.
TrimmedSizes ==
  {1, kNumCommandPrefixes - 1} \cup {Pow2(k) + d : k \in 1..9, d \in {1, 2}}

\* Bit costs of the two code-length codes.
BitCosts == 0..14

\* What the code-length stage hands to the trim test.
Trees ==
  {[huffman_tree_size |-> h, trimmed_size |-> t,
    huffman_bit_cost |-> c, trimmed_bit_cost |-> 0] :
     t \in TrimmedSizes, h \in 1..kNumCommandPrefixes, c \in BitCosts}

\* A code of more than four symbols: its depths are read only by
\* WriteHuffmanTree, whose result is the tree of the call.
FullCode == [count_ |-> 5, symbols_ |-> <<>>, depth_ |-> <<>>]

FullCodeCalls ==
  {[fn |-> "StoreHuffmanCode", code |-> FullCode,
    alphabet_size |-> kNumCommandPrefixes, tree |-> tr] :
     tr \in {x \in Trees :
               x.huffman_tree_size \in
                 {x.trimmed_size, x.trimmed_size + 1, kNumCommandPrefixes}}}

DoStoreHuffmanCode ==
  /\ wr_pc = "call"
  /\ wr_call.fn = "StoreHuffmanCode"
  /\ wr_bits' = StoreHuffmanCode(wr_call.code, wr_call.alphabet_size,
                                 wr_call.tree)
  /\ wr_pc' = "done"
  /\ UNCHANGED wr_call
  /\ UNCHANGED <<driver_vars, cm_vars, smb_vars, bt_vars>>

WrInit ==
  /\ wr_pc = "call"
  /\ wr_call \in MetaBlockLengthCalls \cup SimpleCodeCalls \cup FullCodeCalls
  /\ wr_bits = <<>>

DoEncodeMetaBlockLength ==
  /\ wr_pc = "call"
  /\ wr_call.fn = "EncodeMetaBlockLength"
  /\ wr_bits' = EncodeMetaBlockLength(wr_call.meta_block_size)
  /\ wr_pc' = "done"
  /\ UNCHANGED wr_call
  /\ UNCHANGED <<driver_vars, cm_vars, smb_vars, bt_vars>>

WrNext ==
  \/ DoEncodeMetaBlockLength
  \/ DoStoreHuffmanCode

DriverNext(distances, writes) ==
  \/ EmptyInput
  \/ Construct
  \/ DoWriteStreamHeader
  \/ WriteMetaBlockBegin
  \/ \E d \in distances : ShortCodeStep(d)
  \/ ShortCodesEnd
  \/ \E w \in writes : StoreAndFlush(w)
  \/ DoFinishStream

\* The driver at rest: no call of BrotliCompressBuffer is modelled.
DriverIdle == InitOf({0}, {0})

Init == InitOf(InputSizes, Garbage) /\ CmIdle /\ SmbIdle /\ BtIdle /\ WrIdle
Next == DriverNext(RepeatDistances, MetaBlockWrites)
Spec == Init /\ [][Next]_vars

\* The driver alone, with the fairness of a sequential program that is never
\* suspended for good: one kind of meta-block content, every input size.
InitCalls ==
  InitOf(InputSizes, DistGarbage) /\ CmIdle /\ SmbIdle /\ BtIdle /\ WrIdle
NextCalls == DriverNext(CallDistances, DistWrites)
FairSpec == InitCalls /\ [][NextCalls]_vars /\ WF_vars(NextCalls)

InitDist ==
  InitOf(DistInputSizes, DistGarbage) /\ CmIdle /\ SmbIdle /\ BtIdle /\ WrIdle
NextDist == DriverNext(Distances, DistWrites)
SpecDist == InitDist /\ [][NextDist]_vars

InitMtf == DriverIdle /\ CmInit /\ SmbIdle /\ BtIdle /\ WrIdle
NextMtf == CmNext
SpecMtf == InitMtf /\ [][NextMtf]_vars

InitStore == DriverIdle /\ CmIdle /\ SmbInit /\ BtIdle /\ WrIdle
NextStore == SmbNext
SpecStore == InitStore /\ [][NextStore]_vars

InitTypes == DriverIdle /\ CmIdle /\ SmbIdle /\ BtInit /\ WrIdle
NextTypes == BtNext
SpecTypes == InitTypes /\ [][NextTypes]_vars

\* EncodeContextMap, called once on one context map.
InitContextMap == DriverIdle /\ EcmInit /\ SmbIdle /\ BtIdle /\ WrIdle
NextContextMap == EcmNext
SpecContextMap == InitContextMap /\ [][NextContextMap]_vars

\* The serialising functions, each called once on one of its inputs.
InitWrite == DriverIdle /\ CmIdle /\ SmbIdle /\ BtIdle /\ WrInit
NextWrite == WrNext
SpecWrite == InitWrite /\ [][NextWrite]_vars

TypeOK ==
  /\ pc \in {"entry", "header", "loop", "shortcodes", "store", "done"}
  /\ storage_ix_ \in 0..(8 * StorageLen)
  /\ \A k \in DOMAIN storage_ : storage_[k] \in 0..255
  /\ \A k \in 1..Len(encoded_buffer) : encoded_buffer[k] \in 0..255

(***************************************************************************)
(* Helpers of the claims.                                                  *)
(***************************************************************************)
\* The bits of a byte sequence, each byte least significant bit first.
RECURSIVE BytesToBits(_)
BytesToBits(bytes) ==
  IF bytes = <<>> THEN <<>>
  ELSE BitsOf(8, Head(bytes)) \o BytesToBits(Tail(bytes))

\* A bit sequence padded with zeros to a whole number of bytes.
PadToByte(bits) ==
  bits \o [k \in 1..((8 - (Len(bits) % 8)) % 8) |-> 0]

\* ceil(n / 2^21)
NumBlocks(n) == (n + max_block_size - 1) \div max_block_size

(***************************************************************************)
(* C2: for every non-empty input of n bytes BrotliCompressBuffer           *)
(* terminates, and it has then called WriteStreamHeader once, then         *)
(* WriteMetaBlock exactly ceil(n / 2^21) times, then FinishStream once;    *)
(* the meta-block slices are consecutive from offset 0, each has 1..2^21   *)
(* bytes, only the last may be shorter than 2^21, and they sum to n.       *)
(***************************************************************************)
C2_SequenceAtReturn ==
  (pc = "done" /\ input_size > 0) =>
    LET nb == NumBlocks(input_size) IN
    /\ Len(calls) = nb + 2
    /\ calls[1].op = "WriteStreamHeader"
    /\ calls[nb + 2].op = "FinishStream"
    /\ \A k \in 1..nb :
         /\ calls[k + 1].op = "WriteMetaBlock"
         /\ calls[k + 1].off = (IF k = 1 THEN 0
                                ELSE calls[k].off + calls[k].size)
         /\ calls[k + 1].size \in 1..max_block_size
         /\ k < nb => calls[k + 1].size = max_block_size
    /\ calls[nb + 1].off + calls[nb + 1].size = input_size

C2_CallSequence == [](C2_SequenceAtReturn) /\ <>(pc = "done")

C2_Witness ==
  /\ pc = "done"
  /\ Len(calls) = 4
  /\ calls[3].op = "WriteMetaBlock"
  /\ calls[3].size < max_block_size

(***************************************************************************)
(* C3: for zero-length input BrotliCompressBuffer produces exactly the     *)
(* bytes {0x01, 0x00}, sets *encoded_size to 2, returns 1, and writes no   *)
(* stream header, no meta-block and no FinishStream bit.                   *)
(***************************************************************************)
C3_EmptyInput ==
  (pc = "done" /\ input_size = 0) =>
    /\ encoded_buffer = <<1, 0>>
    /\ encoded_size = 2
    /\ ret = 1
    /\ calls = <<>>
    /\ written = <<>>

C3_Witness == pc = "done" /\ input_size = 0 /\ ret = 1

(***************************************************************************)
(* C4 as stated: for empty input the output is exactly 0x06 0x00.          *)
(***************************************************************************)
C4_Original ==
  (input_size = 0 /\ ret # 0) => encoded_buffer = <<6, 0>>

(***************************************************************************)
(* C4 as amended: for empty input the output is exactly the two bytes      *)
(* 0x01 0x00.                                                              *)
(***************************************************************************)
C4_EmptyOutput ==
  (input_size = 0 /\ ret # 0) =>
    /\ Len(encoded_buffer) = 2
    /\ encoded_buffer[1] = 1
    /\ encoded_buffer[2] = 0

C4_Witness == input_size = 0 /\ ret # 0 /\ Len(encoded_buffer) = encoded_size

(***************************************************************************)
(* C5: WriteStreamHeader writes 3 bits of value 0, then a flag bit that is *)
(* 0 iff window_bits == 16, and, when the flag is 1, 3 bits holding        *)
(* window_bits - 17.  For every window_bits in 16..24 each value fits its  *)
(* field and distinct window sizes give distinct headers; the compressor   *)
(* as constructed (window_bits 22) has written exactly the 7 bits          *)
(* 000, 1, 101 (5, least significant bit first) after its header.          *)
(***************************************************************************)
C5_StreamHeader ==
  /\ \A w \in 16..24 :
       LET ws == StreamHeaderWrites(w) IN
       /\ ws[1] = [n_bits |-> 3, bits |-> 0]
       /\ ws[2].n_bits = 1
       /\ ws[2].bits = (IF w = 16 THEN 0 ELSE 1)
       /\ Len(ws) = (IF w = 16 THEN 2 ELSE 3)
       /\ w # 16 => ws[3] = [n_bits |-> 3, bits |-> w - 17]
       /\ \A k \in 1..Len(ws) : ws[k].bits \in 0..(Pow2(ws[k].n_bits) - 1)
       /\ \A u \in 16..24 :
            u # w => FlatBits(StreamHeaderWrites(u)) # FlatBits(ws)
  /\ (pc = "loop" /\ input_buffer = 0) =>
       /\ window_bits_ = 22
       /\ written = <<0, 0, 0, 1, 1, 0, 1>>
       /\ storage_ix_ = 7
       /\ storage_[0] = 88

C5_Witness ==
  /\ pc = "loop"
  /\ input_buffer = 0
  /\ calls = <<[op |-> "WriteStreamHeader", off |-> 0, size |-> 0]>>
  /\ Len(written) = 7

(***************************************************************************)
(* C9: flushing loses and duplicates no bit.  After every WriteMetaBlock   *)
(* the cursor storage_ix_ is in 0..7 and storage_[0] holds exactly the     *)
(* bits written and not yet handed out; FinishStream then hands out        *)
(* exactly one byte; and the bytes handed out by all WriteMetaBlock calls  *)
(* and FinishStream are the bits written since WriteStreamHeader (header,  *)
(* meta-blocks, the final 1), in order, padded to a whole byte.            *)
(***************************************************************************)
C9_Flush ==
  /\ (pc = "loop" /\ input_buffer > 0) =>
       /\ storage_ix_ \in 0..7
       /\ storage_[0] < Pow2(storage_ix_)
       /\ encoded_size = Len(encoded_buffer)
       /\ encoded_size = Len(written) \div 8
       /\ BytesToBits(encoded_buffer) \o BitsOf(storage_ix_, storage_[0])
            = written
  /\ (pc = "done" /\ input_size > 0) =>
       /\ output_size = 1
       /\ encoded_size = Len(encoded_buffer)
       /\ written[Len(written)] = 1
       /\ BytesToBits(encoded_buffer) = PadToByte(written)

C9_Witness ==
  /\ pc = "done"
  /\ Len(calls) = 4
  /\ Len(encoded_buffer) >= 3
  /\ Len(written) % 8 # 0
  /\ \E k \in 1..Len(encoded_buffer) : encoded_buffer[k] = 255

(***************************************************************************)
(* C7: distance short-code correctness.  For every command with            *)
(* copy_distance > 0 that ComputeDistanceShortCodes processes, over any    *)
(* number of meta-blocks and starting from the ring [4, 11, 15, 16] with   *)
(* index 0, a decoder with a ring of its own recovers copy_distance from   *)
(* distance_code: code k+1 in 1..16 is ring[(head + index_offset[k]) & 3]  *)
(* + value_offset[k], a larger code c is c - 16.  Code 1 resolves to the   *)
(* most recent distance whose code was greater than 1 (16 before any).     *)
(***************************************************************************)
C7_ShortCodesDecodable ==
  cmd # NoCmd =>
    /\ cmd.distance_code_ >= 1
    /\ decoded = cmd.copy_distance_
    /\ cmd.distance_code_ > 16 => cmd.distance_code_ = cmd.copy_distance_ + 16
    /\ cmd.distance_code_ = 1 => cmd.copy_distance_ = recent[4]

C7_Witness ==
  /\ input_buffer > 0
  /\ cmd.distance_code_ \in 2..16
  /\ kValueOffset[cmd.distance_code_] # 0
  /\ dist_ringbuffer_idx_ >= 4

(***************************************************************************)
(* C10: the distance ring changes only on commands whose distance_code is  *)
(* greater than 1.  A command that gets code 1 leaves the four entries and *)
(* the index unchanged; every other processed command writes its raw       *)
(* copy_distance at slot (index & 3) and increases the index by 1; no      *)
(* other step of the compressor touches the ring, so a meta-block starts   *)
(* with the ring the previous one left.  The ring therefore holds the four *)
(* most recent distances whose code was greater than 1 (4, 11, 15, 16      *)
(* where fewer than four exist).                                           *)
(***************************************************************************)
C10_RingStep ==
  IF i' = i + 1
  THEN IF cmd'.distance_code_ = 1
       THEN /\ dist_ringbuffer_' = dist_ringbuffer_
            /\ dist_ringbuffer_idx_' = dist_ringbuffer_idx_
       ELSE /\ dist_ringbuffer_' =
                 [dist_ringbuffer_ EXCEPT ![dist_ringbuffer_idx_ % 4] =
                                             cmd'.copy_distance_]
            /\ dist_ringbuffer_idx_' = dist_ringbuffer_idx_ + 1
  ELSE pc # "entry" =>
         /\ dist_ringbuffer_' = dist_ringbuffer_
         /\ dist_ringbuffer_idx_' = dist_ringbuffer_idx_

C10_RingHoldsRecent ==
  (input_size # 0 /\ pc # "entry") =>
    \A j \in 1..4 :
      dist_ringbuffer_[(dist_ringbuffer_idx_ + 4 - j) % 4] = recent[5 - j]

C10_RingFrame == [][C10_RingStep]_vars /\ [](C10_RingHoldsRecent)

C10_Witness ==
  /\ input_buffer > 0
  /\ pc = "shortcodes"
  /\ cmd.distance_code_ = 1
  /\ dist_ringbuffer_idx_ >= 5
  /\ cmd.copy_distance_ \notin {4, 11, 15, 16}

(***************************************************************************)
(* C8: MTF + RLE round trip.  For every vector v of non-negative integers  *)
(* and every max_run_length_prefix in 0..16, MoveToFrontTransform followed *)
(* by RunLengthCodeZeros is undone by the inverse run-length coding (token *)
(* p <= effective max prefix with extra value e is a run of 2^p + e zeros, *)
(* a larger token t is the value t - max prefix) followed by the inverse   *)
(* move-to-front; runs longer than 2^(max+1) - 1 are split into several    *)
(* tokens.                                                                 *)
(***************************************************************************)
C8_MtfRleRoundTrip ==
  cm_pc = "rle" =>
    /\ Len(rle_symbols) = Len(extra_bits)
    /\ InverseRunLength(rle_symbols, extra_bits, max_run_length_prefix)
         = transformed_symbols
    /\ InverseMoveToFront(
         InverseRunLength(rle_symbols, extra_bits, max_run_length_prefix))
         = context_map

C8_Witness ==
  /\ cm_pc = "rle"
  /\ max_run_length_prefix = 1
  /\ Len(rle_symbols) >= 3
  /\ rle_symbols[1] > 1
  /\ rle_symbols[2] = 1 /\ extra_bits[2] = 1
  /\ rle_symbols[3] = 0


(***************************************************************************)
(* The emission order of StoreMetaBlock.                                   *)
(***************************************************************************)
\* The place of an event in the order the sections are promised in.
SectionRank(e) ==
  LET stream_rank(a) == CASE a = "literal" -> 0 [] a = "command" -> 1
                          [] a = "distance" -> 2
  IN  CASE e.sec = "length" -> 1
        [] e.sec \in {"split_code", "num_types", "type_code_huffman",
                      "length_code_huffman", "first_block_length"} ->
             2 + stream_rank(e.a)
        [] e.sec = "postfix_bits" -> 5
        [] e.sec = "ndirect" -> 6
        [] e.sec = "context_mode" -> 7
        [] e.sec = "context_map" -> 8 + stream_rank(e.a) \div 2
        [] e.sec = "huffman" -> 10 + stream_rank(e.a)
        [] OTHER -> 13

\* The place of a body event within its command.
BodyPhase(e) ==
  CASE e.sec = "command" -> 1
    [] e.sec = "insert_extra" -> 2
    [] e.sec = "copy_extra" -> 3
    [] e.sec = "literal" -> 4
    [] e.sec = "distance" -> 5
    [] e.sec = "distance_extra" -> 6

EventsOf(es, sec) == SelectSeq(es, LAMBDA e : e.sec = sec)

\* The body events that belong to a command (the block-switch events of
\* MoveAndEncode carry a stream, not a command).
CommandEvents(es) ==
  SelectSeq(es, LAMBDA e : e.sec \in {"command", "insert_extra", "copy_extra",
                                      "literal", "distance", "distance_extra"})

\* C6: StoreMetaBlock emits the meta-block length, then the block-split
\* codes of literals, commands and distances, then distance_postfix_bits
\* and num_direct_distance_codes >> distance_postfix_bits, then one context
\* mode per literal type, then the literal and the distance context map,
\* then the literal, the command and the distance prefix codes, then the
\* body; in the body the commands come in list order, each as its command
\* symbol, its insert-extra bits, its copy-extra bits, its insert_length_
\* literals and then its distance symbol if one is emitted.
C6_EmissionOrder ==
  smb_pc = "stored" =>
    LET es == emitted
        ce == CommandEvents(es)
        splits == EventsOf(es, "split_code")
        maps == EventsOf(es, "context_map")
        huff(a) == SelectSeq(es, LAMBDA e : e.sec = "huffman" /\ e.a = a)
    IN  /\ \A k \in 1..(Len(es) - 1) : SectionRank(es[k]) <= SectionRank(es[k + 1])
        /\ es[1] = Ev("length", MetaBlockLength(mb.cmds) - 1, 0)
        /\ Len(EventsOf(es, "length")) = 1
        /\ [k \in 1..3 |-> splits[k].a] = <<"literal", "command", "distance">>
        /\ Len(splits) = 3
        /\ EventsOf(es, "postfix_bits")
             = <<Ev("postfix_bits", 2, mb.params.distance_postfix_bits)>>
        /\ EventsOf(es, "ndirect")
             = <<Ev("ndirect", 4, mb.params.num_direct_distance_codes
                                  \div Pow2(mb.params.distance_postfix_bits))>>
        /\ Len(EventsOf(es, "context_mode")) = mb.literal_split.num_types_
        /\ [k \in 1..Len(maps) |-> maps[k].a] = <<"literal", "distance">>
        /\ Len(huff("literal")) = mb.num_literal_histograms
        /\ Len(huff("command")) = mb.num_command_histograms
        /\ Len(huff("distance")) = mb.num_distance_histograms
        /\ \A k \in 1..(Len(ce) - 1) :
             \/ ce[k].a < ce[k + 1].a
             \/ /\ ce[k].a = ce[k + 1].a
                /\ \/ BodyPhase(ce[k]) < BodyPhase(ce[k + 1])
                   \/ /\ ce[k].sec = "literal"
                      /\ ce[k + 1].sec = "literal"
                      /\ ce[k].b < ce[k + 1].b
        /\ [k \in 1..Len(EventsOf(es, "command")) |-> EventsOf(es, "command")[k].a]
             = [n \in 1..Len(mb.cmds) |-> n]
        /\ \A n \in 1..Len(mb.cmds) :
             /\ Len(SelectSeq(ce, LAMBDA e : e.sec = "literal" /\ e.a = n))
                  = mb.cmds[n].insert_length_
             /\ Len(SelectSeq(ce, LAMBDA e : e.sec = "insert_extra" /\ e.a = n))
                  = IF mb.cmds[n].insert_extra_bits > 0 THEN 1 ELSE 0
             /\ Len(SelectSeq(ce, LAMBDA e : e.sec = "copy_extra" /\ e.a = n))
                  = IF mb.cmds[n].copy_extra_bits > 0 THEN 1 ELSE 0
             /\ Len(SelectSeq(ce, LAMBDA e : e.sec = "distance" /\ e.a = n)) <= 1

\* A stored meta-block of two commands whose first command has both kinds of
\* extra bits, two literals and a distance symbol, with two literal types.
C6_Witness ==
  /\ smb_pc = "stored"
  /\ Len(mb.cmds) = 2
  /\ mb.cmds[1].insert_extra_bits > 0
  /\ mb.cmds[1].copy_extra_bits > 0
  /\ mb.cmds[1].insert_length_ = 2
  /\ mb.literal_split.num_types_ = 2
  /\ \E k \in 1..Len(emitted) : emitted[k].sec = "distance" /\ emitted[k].a = 1
  /\ \E k \in 1..Len(emitted) : emitted[k].sec = "literal" /\ emitted[k].a = 2

(***************************************************************************)
(* The command prefixes of ComputeCommandPrefixes.                         *)
(***************************************************************************)
\* The n-th command of the stored meta-block has a distance symbol.
EmitsDistance(n) ==
  \E k \in 1..Len(emitted) : emitted[k].sec = "distance" /\ emitted[k].a = n

\* C11: after ComputeCommandPrefixes, for every command with
\* copy_length_code_ > 0, distance_prefix_ is the sentinel 0xffff exactly when
\* CommandPrefix(insert_length_, copy_length_code_) is below 128 and the
\* computed distance prefix is 0; then command_prefix_ is the value of
\* CommandPrefix, and otherwise command_prefix_ is that value plus 128 and
\* distance_prefix_ is the computed prefix.  Once the meta-block is stored,
\* such a command has command_prefix_ below 128 exactly when StoreMetaBlock
\* emitted no distance symbol for it.
C11_CommandPrefixes ==
  smb_pc \in {"built", "stored"} =>
    \A n \in 1..Len(mb.cmds) :
      LET c == mb.cmds[n] IN
      c.copy_length_code_ > 0 =>
        /\ (c.distance_prefix_ = kSentinel)
             <=> (c.CommandPrefix < 128 /\ c.PrefixEncodeCopyDistance = 0)
        /\ c.distance_prefix_ = kSentinel =>
             /\ c.command_prefix_ = c.CommandPrefix
             /\ c.command_prefix_ < 128
        /\ c.distance_prefix_ # kSentinel =>
             /\ c.command_prefix_ = c.CommandPrefix + 128
             /\ c.distance_prefix_ = c.PrefixEncodeCopyDistance
        /\ smb_pc = "stored" => (c.command_prefix_ < 128 <=> ~EmitsDistance(n))

\* A stored meta-block with a copy that got the sentinel and a copy whose
\* CommandPrefix is below 128 but whose distance prefix is not 0.
C11_Witness ==
  /\ smb_pc = "stored"
  /\ Len(mb.cmds) = 2
  /\ mb.cmds[1].copy_length_code_ > 0
  /\ mb.cmds[1].distance_prefix_ = kSentinel
  /\ ~EmitsDistance(1)
  /\ mb.cmds[2].copy_length_code_ > 0
  /\ mb.cmds[2].CommandPrefix < 128
  /\ mb.cmds[2].command_prefix_ = mb.cmds[2].CommandPrefix + 128
  /\ EmitsDistance(2)

(***************************************************************************)
(* The block-type codes.                                                   *)
(***************************************************************************)
\* C12: for every BlockSplit with num_types >= 2 and types in
\* 0..num_types-1, ComputeBlockTypeShortCodes gives every run a code in
\* 0..num_types+1, a decoder with the same 2-entry ring recovers every run's
\* type from its code, and the code MoveAndEncode passes to EntropyEncode is
\* the computed type code of the run, for every num_types up to 256.
C12_TypeCodes ==
  (bt_pc \in {"coded", "body"} /\ bt_split.num_types_ >= 2) =>
    /\ Len(bt_split.type_codes_) = Len(bt_split.types_)
    /\ \A k \in 1..Len(bt_split.type_codes_) :
         bt_split.type_codes_[k] \in 0..(bt_split.num_types_ + 1)
    /\ DecodeBlockTypes(bt_split.type_codes_, 1, InitialTypeRing, 0)
         = bt_split.types_
    /\ \A k \in 1..Len(passed) : passed[k] = bt_split.type_codes_[k + 1]

\* The split of 255 types whose second run has type 254: its code 256 is
\* handed on as 0.
C12_Witness ==
  /\ bt_pc = "body"
  /\ bt_split.num_types_ = 255
  /\ bt_split.types_ = <<0, 254>>
  /\ bt_split.type_codes_ = <<0, 256>>
  /\ passed = <<0>>

\* C12, the part that holds: range and decodability for every num_types, and the code
\* handed on is the computed one whenever num_types <= 254.
C12_TypeCodesUpTo254 ==
  (bt_pc \in {"coded", "body"} /\ bt_split.num_types_ >= 2) =>
    /\ Len(bt_split.type_codes_) = Len(bt_split.types_)
    /\ \A k \in 1..Len(bt_split.type_codes_) :
         bt_split.type_codes_[k] \in 0..(bt_split.num_types_ + 1)
    /\ DecodeBlockTypes(bt_split.type_codes_, 1, InitialTypeRing, 0)
         = bt_split.types_
    /\ \A k \in 1..Len(passed) :
         /\ passed[k] = bt_split.type_codes_[k + 1] % 256
         /\ bt_split.num_types_ <= 254 =>
              passed[k] = bt_split.type_codes_[k + 1]

(***************************************************************************)
(* The block-split iterators in the body of StoreMetaBlock.                *)
(***************************************************************************)
Streams == {"literal", "command", "distance"}

SplitOf(stream) ==
  CASE stream = "literal" -> mb.literal_split
    [] stream = "command" -> mb.command_split
    [] stream = "distance" -> mb.distance_split

RECURSIVE SumLengths(_, _)
SumLengths(lengths, k) ==
  IF k = 0 THEN 0 ELSE lengths[k] + SumLengths(lengths, k - 1)

\* The positions in emitted of the events of one section and stream.
PositionsOf(sec, stream) ==
  {k \in 1..Len(emitted) : emitted[k].sec = sec /\ emitted[k].a = stream}

\* The number of symbols of the stream emitted before position k.
SymbolsBefore(stream, k) ==
  Cardinality({j \in 1..(k - 1) : emitted[j].sec = stream})

\* The iterator stays inside the run list and ends on the last run, used up.
IteratorInside(stream) ==
  LET sp == SplitOf(stream)
      tr == SelectSeq(it_trace, LAMBDA t : t.stream = stream)
  IN  /\ \A k \in 1..Len(tr) :
           /\ tr[k].it.idx_ \in 0..(Len(sp.lengths_) - 1)
           /\ tr[k].it.length_ >= 0
      /\ Len(tr) = SumLengths(sp.lengths_, Len(sp.lengths_))
      /\ tr[Len(tr)].it.idx_ = Len(sp.lengths_) - 1
      /\ tr[Len(tr)].it.length_ = 0

\* Every run after the first has its type code and then its length emitted
\* once, in run order, immediately before the first symbol of the run.
LaterRunsAnnounced(stream) ==
  LET sp == SplitOf(stream)
      ps == PositionsOf("block_type", stream)
  IN  /\ Cardinality(ps) = Len(sp.lengths_) - 1
      /\ Cardinality(PositionsOf("block_length", stream)) = Len(sp.lengths_) - 1
      /\ \A k \in ps :
           LET r == Cardinality({j \in ps : j <= k}) + 1 IN
           /\ emitted[k].b = sp.type_codes_[r]
           /\ emitted[k + 1] = Ev("block_length", stream, sp.lengths_[r])
           /\ emitted[k + 2].sec = stream
           /\ SymbolsBefore(stream, k) = SumLengths(sp.lengths_, r - 1)

FirstLengths(stream) ==
  SelectSeq(emitted, LAMBDA e : e.sec = "first_block_length" /\ e.a = stream)

FloorLog2(n) == CHOOSE k \in 0..24 : Pow2(k) <= n /\ n < Pow2(k + 1)

CeilLog2(n) == CHOOSE k \in 0..24 : n <= Pow2(k) /\ (k = 0 \/ Pow2(k - 1) < n)

CeilDiv(a, b) == (a + b - 1) \div b

\* The number whose 4-bit groups, least significant first, are ws.
RECURSIVE FromNibbles(_)
FromNibbles(ws) ==
  IF ws = <<>> THEN 0 ELSE Head(ws).bits + 16 * FromNibbles(Tail(ws))

\* The bits written by a list of WriteBits calls.
RECURSIVE TotalBits(_)
TotalBits(ws) ==
  IF ws = <<>> THEN 0 ELSE Head(ws).n_bits + TotalBits(Tail(ws))

Returned(fn) == wr_pc = "done" /\ wr_call.fn = fn

\* C14: EncodeMetaBlockLength(L) with 1 <= L < 2^21 writes one 0 bit, a
\* 3-bit count c = ceil((floor(log2 L) + 1) / 4) <= 6, then exactly c
\* groups of 4 bits, least significant nibble first, that rebuild L, and
\* nothing else: 4 + 4c bits in all.
C14_MetaBlockLength ==
  (/\ Returned("EncodeMetaBlockLength")
   /\ 1 <= wr_call.meta_block_size
   /\ wr_call.meta_block_size < Pow2(21)) =>
    LET L == wr_call.meta_block_size
        c == CeilDiv(FloorLog2(L) + 1, 4)
        nibbles == SubSeq(wr_bits, 3, Len(wr_bits))
    IN  /\ c <= 6
        /\ Len(wr_bits) = 2 + c
        /\ wr_bits[1] = Wr(1, 0)
        /\ wr_bits[2] = Wr(3, c)
        /\ \A n \in 1..Len(nibbles) :
             /\ nibbles[n].fn = "WriteBits"
             /\ nibbles[n].n_bits = 4
             /\ nibbles[n].bits \in 0..15
        /\ FromNibbles(nibbles) = L
        /\ TotalBits(wr_bits) = 4 + 4 * c

\* C14 witness: the length 2^20 + 1 has been written in six nibbles, the
\* first one 1 and the last one 1.
C14_Witness ==
  /\ Returned("EncodeMetaBlockLength")
  /\ wr_call.meta_block_size = Pow2(20) + 1
  /\ Len(wr_bits) = 8
  /\ wr_bits[3] = Wr(4, 1)
  /\ wr_bits[8] = Wr(4, 1)

\* The symbols the simple form wrote, in the order sorted.
WrittenSymbols ==
  [n \in 1..wr_call.code.count_ |-> wr_bits[2 + n].bits]

\* Position of a symbol in symbols_.
PositionIn(symbols, x) == CHOOSE n \in 1..Len(symbols) : symbols[n] = x

SimpleFormReturned ==
  /\ Returned("StoreHuffmanCode")
  /\ 1 <= wr_call.code.count_
  /\ wr_call.code.count_ <= 4

AscendingDepth(code, sorted) ==
  \A m, n \in 1..Len(sorted) :
    m < n => code.depth_[sorted[m]] <= code.depth_[sorted[n]]

\* C15 as stated: the simple form writes the symbols in ascending order of
\* depth, and symbols of equal depth in the order they have in symbols_.
C15_Original ==
  SimpleFormReturned =>
    LET code == wr_call.code
        sorted == WrittenSymbols
    IN  /\ AscendingDepth(code, sorted)
        /\ \A m, n \in 1..Len(sorted) :
             (m < n /\ code.depth_[sorted[m]] = code.depth_[sorted[n]]) =>
               PositionIn(code.symbols_, sorted[m]) <
                 PositionIn(code.symbols_, sorted[n])

\* C15: the simple form writes a 1 bit, count - 1 in 2 bits, and then each
\* of the count symbols of symbols_ exactly once, in max_bits bits, in
\* ascending order of depth; the order among symbols of equal depth is
\* whatever the exchanges of the quadratic sort leave.
C15_SimpleOrder ==
  SimpleFormReturned =>
    LET code == wr_call.code
        sorted == WrittenSymbols
    IN  /\ wr_bits[1] = Wr(1, 1)
        /\ wr_bits[2] = Wr(2, code.count_ - 1)
        /\ \A n \in 1..code.count_ :
             /\ wr_bits[2 + n].fn = "WriteBits"
             /\ wr_bits[2 + n].n_bits = MaxBits(wr_call.alphabet_size - 1)
        /\ \A n \in 1..code.count_ :
             Cardinality({m \in 1..code.count_ :
                            sorted[m] = code.symbols_[n]}) = 1
        /\ AscendingDepth(code, sorted)

\* C15 witness: three symbols with depths 2, 2, 1 have been sorted as
\* third, second, first: the two symbols of depth 2 changed places.
C15_Witness ==
  /\ SimpleFormReturned
  /\ wr_call.code.count_ = 3
  /\ wr_call.code.symbols_ = <<0, 1, 2>>
  /\ wr_call.code.depth_[0] = 2
  /\ wr_call.code.depth_[2] = 1
  /\ WrittenSymbols = <<2, 1, 0>>

Max(a, b) == IF a >= b THEN a ELSE b

\* StoreHuffmanCode returned from a call that took the full form with a
\* trimmed size in the range of the claim.
FullFormReturned ==
  /\ Returned("StoreHuffmanCode")
  /\ wr_call.code.count_ > 4
  /\ 2 <= wr_call.tree.trimmed_size
  /\ wr_call.tree.trimmed_size <= 704

\* The full form wrote the trimmed length.
TrimWritten == wr_bits[3] = Wr(1, 1)

\* The length field and the cost test for a given nbitpairs.
LengthField(nbitpairs) ==
  LET tree == wr_call.tree
      s == tree.trimmed_size
  IN  /\ TrimWritten <=>
           /\ s < tree.huffman_tree_size
           /\ tree.trimmed_bit_cost + 3 + 2 * nbitpairs < tree.huffman_bit_cost
      /\ TrimWritten =>
           /\ Len(wr_bits) = 6
           /\ wr_bits[4] = Wr(3, nbitpairs - 1)
           /\ wr_bits[5] = Wr(2 * nbitpairs, s - 2)
           /\ wr_bits[6] = Sub("StoreHuffmanTreeToBitMask", s)

\* C16 as stated: a trimmed sequence of size s, 2 <= s <= 704, is announced
\* by 3 bits nbitpairs - 1 and 2 * nbitpairs bits s - 2 with
\* nbitpairs = max(1, ceil((ceil(log2(s - 1)) + 1) / 2)), and the cost test
\* uses the same nbitpairs.
C16_Original ==
  FullFormReturned =>
    LengthField(Max(1, CeilDiv(CeilLog2(wr_call.tree.trimmed_size - 1) + 1, 2)))

\* C16: a trimmed sequence of size s, 2 <= s <= 704, is announced by 3 bits
\* nbitpairs - 1 and 2 * nbitpairs bits s - 2 with
\* nbitpairs = max(1, ceil(ceil(log2(s - 1)) / 2)); both fields hold their
\* values, and the cost test uses the same nbitpairs.
C16_LengthField ==
  FullFormReturned =>
    LET s == wr_call.tree.trimmed_size
        nbitpairs == Max(1, CeilDiv(CeilLog2(s - 1), 2))
    IN  /\ LengthField(nbitpairs)
        /\ nbitpairs - 1 < Pow2(3)
        /\ s - 2 < Pow2(2 * nbitpairs)

\* C16 witness: a trimmed sequence of size 4 has been announced with one
\* bit pair: 3 bits 0 and 2 bits holding 2.
C16_Witness ==
  /\ FullFormReturned
  /\ TrimWritten
  /\ wr_call.tree.trimmed_size = 4
  /\ wr_bits[4] = Wr(3, 0)
  /\ wr_bits[5] = Wr(2, 2)

\* EncodeContextMap is past BestMaxZeroRunLengthPrefix, for a cluster count
\* in the range of the claim.
PrefixChosen ==
  /\ cm_pc \in {"best", "returned"}
  /\ 2 <= num_clusters
  /\ num_clusters <= 240

\* The calls EncodeContextMap made for the symbols: what lies between the
\* call of StoreHuffmanCode and the closing move-to-front bit.
SymbolCalls ==
  LET header == IF max_run_length_prefix > 0 THEN 4 ELSE 3
  IN  SubSeq(wr_bits, header + 1, Len(wr_bits) - 1)

GetsExtraBits(symbol) == symbol >= 1 /\ symbol <= max_run_length_prefix

\* C17: in EncodeContextMap with 2 <= num_clusters <= 240 the prefix chosen
\* by BestMaxZeroRunLengthPrefix is in 0..16 and the following
\* RunLengthCodeZeros call does not lower it; every run-length symbol is in
\* 0..num_clusters + max_run_length_prefix - 1, an alphabet of at most 256
\* symbols; a symbol is followed by extra bits exactly when it is in
\* 1..max_run_length_prefix, and then by as many bits as the symbol says,
\* holding a value below 2^symbol.
C17_ContextMap ==
  PrefixChosen =>
    /\ max_run_length_prefix \in 0..16
    /\ num_clusters + max_run_length_prefix <= 256
    /\ cm_pc = "best" =>
         RunLengthCodeZeros(transformed_symbols,
                            max_run_length_prefix).max_run_length_prefix
           = max_run_length_prefix
    /\ cm_pc = "returned" =>
         LET made == SymbolCalls
         IN  /\ Len(extra_bits) = Len(rle_symbols)
             /\ \A n \in 1..Len(rle_symbols) :
                  /\ rle_symbols[n] \in
                       0..(num_clusters + max_run_length_prefix - 1)
                  /\ extra_bits[n] >= 0
                  /\ GetsExtraBits(rle_symbols[n]) =>
                       extra_bits[n] < Pow2(rle_symbols[n])
                  /\ ~GetsExtraBits(rle_symbols[n]) => extra_bits[n] = 0
             /\ [n \in 1..Len(rle_symbols) |->
                   Sub("EntropyEncode", rle_symbols[n])]
                  = SelectSeq(made, LAMBDA c : c.fn = "EntropyEncode")
             /\ \A n \in 1..Len(made) :
                  /\ (made[n].fn = "EntropyEncode" /\
                      GetsExtraBits(made[n].bits)) =>
                       /\ n < Len(made)
                       /\ made[n + 1].fn = "WriteBits"
                  /\ made[n].fn = "WriteBits" =>
                       /\ n > 1
                       /\ made[n - 1].fn = "EntropyEncode"
                       /\ GetsExtraBits(made[n - 1].bits)
                       /\ made[n].n_bits = made[n - 1].bits
                       /\ made[n].bits >= 0
                       /\ made[n].bits < Pow2(made[n].n_bits)

\* C17 witness: a context map over 240 clusters has been written with
\* prefix 4: a run of 17 zeros as symbol 4 with extra value 1, and the last
\* cluster id as symbol 243, the top of the alphabet.
C17_Witness ==
  /\ cm_pc = "returned"
  /\ num_clusters = 240
  /\ max_run_length_prefix = 4
  /\ \E n \in 1..Len(rle_symbols) :
       rle_symbols[n] = 4 /\ extra_bits[n] = 1
  /\ \E n \in 1..Len(rle_symbols) : rle_symbols[n] = 243
  /\ \E n \in 1..Len(wr_bits) : wr_bits[n] = Wr(4, 1)

====
